---- MODULE Spec2Model ----
(***************************************************************************)
(* GhostRadio job orchestration: the file-per-ticket job queue             *)
(* (src/src/job_queue.py), the worker that drains it under a file lock     *)
(* (src/src/worker.py, src/src/file_lock.py), the Job Status documents     *)
(* written by the worker (src/src/job_status_updater.py) and by the HTTP   *)
(* server's JobManager (src/src/api_routes.py); the attempt loop of the     *)
(* LLM and TTS generators with the fallback lookup of the health checker   *)
(* (src/src/tts_generator.py, src/src/llm_processor.py,                    *)
(* src/src/model_health_checker.py); the per-user episode catalog          *)
(* (src/src/episode_metadata.py); the Job object's serialised form and     *)
(* stage clock (src/src/api_routes.py, src/src/job_models.py); the webhook *)
(* notifier (src/src/webhook_manager.py, src/src/retry_utils.py).          *)
(*                                                                         *)
(* Granularity: one step per filesystem operation or external call of the  *)
(* worker process, one step per lock-protected JobManager call or file     *)
(* append of a server request thread.  Timestamps are abstracted: a        *)
(* queue_id is a fresh number, increasing from one clock second to the     *)
(* next and in any order within one; completed_at is null or set.  A job   *)
(* file opened for writing reads as unparseable until the write is done.   *)
(* A job id is a number; 0 is the empty string (falsy in Python), which    *)
(* migrate_from_old_queue yields for a queue.txt line "ts|url|".           *)
(***************************************************************************)
EXTENDS Integers, Sequences, FiniteSets, TLC

\* ---------------------------------------------------------------- bounds
MaxJobs == 1        \* POST /api/generate requests accepted
MaxWebhooks == 1    \* POST /webhook requests accepted
MaxRuns == 5        \* drain passes over a queue that was fed beforehand
MaxLiveRuns == 2    \* drain passes that run while the server takes requests
MaxCrashes == 1     \* worker processes killed
MaxCancels == 1     \* POST /api/cancel requests
MaxLines == 2       \* lines of queue.txt ahead of drain passes
MaxCrashLines == 1  \* lines of queue.txt ahead of drain passes with process kills
MaxRestarts == 1    \* restarts of the server process
MaxServeRuns == 2   \* drain passes that run while the server answers requests about a job
MaxCalls == 2       \* generate() / process() calls on one generator object
MaxEpisodeIds == 3  \* distinct episode ids
MaxLimit == 2       \* the largest limit add_episode is called with
MaxClock == 4       \* clock steps in which a Job object is modified
MaxUrls == 2        \* webhook URLs configured
MaxNotifications == 3  \* send_notification calls on one WebhookManager
MaxSeconds == 624   \* seconds on the clock of a stage

\* ------------------------------------------------------ program constants
DEFAULT_MAX_RETRIES == 3   \* add_job(max_retries=3)
max_retries == 3           \* generate() and process(): max_retries = 3
stop_after_attempt == 3    \* network_retry: stop=stop_after_attempt(3)

\* two worker processes can exist at a time; the second name is taken only while
\* the first is in use (process names carry no meaning)
Workers == {"w1", "w2"}
FirstWorker == "w1"
JobIds == 1..MaxJobs
EmptyJobId == 0
\* str(uuid.uuid4())[:8], the job id migrate_from_old_queue gives a line "ts|url":
\* truthy, and no Job Status document bears it
UuidJobId == -1

PENDING == "pending"
QUEUED == "queued"
PROCESSING == "processing"
FETCHING == "fetching"
LLM_PROCESSING == "llm_processing"
TTS_GENERATING == "tts_generating"
COMPLETED == "completed"
FAILED == "failed"
CANCELLED == "cancelled"
TIMEOUT == "timeout"

VARIABLES
    queueTxt,      \* queue.txt: the job ids of its lines, <<>> when the file is absent
    queueDir,      \* logs/queue/*.json      (set of tickets, named by qid)
    processedDir,  \* logs/processed/*.json
    failedDir,     \* logs/failed/*.json
    nextQid,       \* stands for datetime.now() + uuid4 of add_job
    doc,           \* logs/jobs/<job_id>.json
    mem,           \* JobManager._jobs of the server process
    genpc,         \* position of each POST /api/generate handler
    nWebhooks,     \* POST /webhook requests served
    cancelResp,    \* the last POST /api/cancel response
    nCancels,      \* POST /api/cancel requests served
    lockHolders,   \* worker processes holding flock(logs/worker.lock)
    episodesDir,   \* whether episodes/ exists
    audio,         \* job ids whose audio file was written
    catalog,       \* job ids with an episode in a metadata.json
    w,             \* the worker processes
    runs,          \* worker processes that acquired the lock so far
    maxRuns,       \* how many of them the scheduler starts in all
    crashes,       \* worker processes killed so far
    ticketed,      \* history: job ids for which add_job has ever written a ticket
    ranRc,         \* history: process_url calls for job 1, per retry_count
    cancelLLM,     \* history: job ids cancelled while a worker was in their LLM call
    torn,          \* job ids whose logs/jobs/<job_id>.json is truncated or garbled
    restarts,      \* restarts of the server process so far
    notFound,      \* history: job ids a progress read answered 404 for while their file existed
    arrived,       \* history: job ids appended to queue.txt while a worker was running a ticket
    partialFiles,  \* queue ids of logs/queue/*.json files that hold a truncated document
    diedOn,        \* history: job ids whose worker process was killed inside process_url
    stage,         \* a TTSGenerator / LLMProcessor object and its generate() / process() call
    fallback,      \* the last get_fallback_config call: its arguments and what it returned
    metadata,      \* episodes/<user>/metadata.json: the "episodes" list, newest first
    userFiles,     \* the audio and script files in episodes/<user>/
    limit,         \* the limit argument of add_episode
    lastOp,        \* history: the last operation on the catalog and what it did
    rt,            \* a Job object, the clock, and the last copy rebuilt from its serialised form
    hook,          \* a WebhookManager and its send_notification call
    tk,            \* one request or add_job call, its ticket, and the worker's handling of it
    noUrl,         \* queue ids of logs/queue/*.json files that parse but have no "url" key
    tmo            \* a Job's stage clock in the server, and the last check_timeout on it

\* the state of the components the queue, the worker and the server do not touch
others == <<stage, fallback, metadata, userFiles, limit, lastOp, rt, hook, tk, noUrl, tmo>>

\* the generator, the fallback lookup and the episode catalog
componentVars == <<stage, fallback, metadata, userFiles, limit, lastOp>>

\* the objects exercised on their own, apart from the generator and the catalog
aux == <<rt, hook, tk, noUrl, tmo>>

\* the state of the queue, the worker processes and the server
queueVars == <<queueTxt, queueDir, processedDir, failedDir, nextQid, doc, mem, genpc,
               nWebhooks, cancelResp, nCancels, lockHolders, episodesDir, audio,
               catalog, w, runs, maxRuns, crashes, ticketed, ranRc, cancelLLM, torn,
               restarts, notFound, arrived, partialFiles, diedOn>>

\* what the steps of the worker and of the server request handlers leave alone
ext == <<partialFiles, diedOn, others>>

vars == <<queueTxt, queueDir, processedDir, failedDir, nextQid, doc, mem, genpc,
          nWebhooks, cancelResp, nCancels, lockHolders, episodesDir, audio,
          catalog, w, runs, maxRuns, crashes, ticketed, ranRc, cancelLLM, torn,
          restarts, notFound, arrived, partialFiles, diedOn, others>>

\* a generator that was never constructed, get_fallback_config never called
NoStage == [kind |-> "none", pc |-> "idle", config |-> "none", provider |-> "none",
            attempt |-> 0, sent |-> <<>>, switched |-> <<>>, result |-> "none", ncalls |-> 0]

NoFallback == [kind |-> "none", original |-> "none", healthy |-> {}, result |-> "none"]

\* no generator object, no fallback lookup
ProvidersIdle ==
    /\ stage = NoStage
    /\ fallback = NoFallback

\* an empty catalog in an empty user directory
NoOp == [op |-> "none", id |-> 0, evicted |-> 0, replaced |-> FALSE]

CatalogIdle ==
    /\ metadata = <<>>
    /\ userFiles = {}
    /\ limit = 0
    /\ lastOp = NoOp

\* no Job object under round trip
NoTime == 0

NoFullJob == [status |-> "absent", progress |-> 0, stage |-> "", stage_start_time |-> NoTime,
              stages |-> <<>>, created_at |-> NoTime, updated_at |-> NoTime,
              completed_at |-> NoTime, cancelled |-> FALSE]

NoRoundTrip == [job |-> NoFullJob, now |-> 0, copy |-> NoFullJob, how |-> "none"]

\* no WebhookManager
NoHook == [enabled |-> FALSE, webhooks |-> {}, pc |-> "idle", i |-> 0, attempt_number |-> 0, raised |-> "none",
           posts |-> <<>>, ncalls |-> 0]

\* no request
NoArgs == [user_id |-> "absent", need_summary |-> "absent", tts_config |-> "absent"]

NoFields == [job_id |-> 0, user_id |-> "", need_summary |-> FALSE, tts_config |-> "",
             retry_count |-> 0, max_retries |-> 0]

NoRequest == [pc |-> "idle", route |-> "none", args |-> NoArgs, job_id |-> 0,
              document |-> "absent", line |-> <<>>, ticket |-> NoFields, call |-> NoFields,
              fetched |-> FALSE, llm_called |-> FALSE, script |-> "none"]

\* no stage clock
NoCheck == [stage |-> "", elapsed |-> 0, warning |-> "none"]

NoTimeout == [stage |-> "", stage_start_time |-> NoTime, now |-> 0, last |-> NoCheck]

AuxIdle ==
    /\ rt = NoRoundTrip
    /\ hook = NoHook
    /\ tk = NoRequest
    /\ noUrl = {}
    /\ tmo = NoTimeout

\* the provider objects and the episode catalog left out of a run
OthersIdle == ProvidersIdle /\ CatalogIdle /\ AuxIdle

\* no partial ticket file and no killed worker
QueueExtInit ==
    /\ partialFiles = {}
    /\ diedOn = {}

ExtInit == QueueExtInit /\ OthersIdle

\* ------------------------------------------------------------ data shapes
NoTicket == [qid |-> 0, job |-> 0, rc |-> 0]

NoDoc == [status |-> "absent", progress |-> 0, stage |-> "", cancelled |-> FALSE,
          completed_at |-> FALSE]

\* Job.__init__ followed by to_dict
NewJob == [status |-> PENDING, progress |-> 0, stage |-> "", cancelled |-> FALSE,
           completed_at |-> FALSE]

NoKw == [status |-> "", progress |-> -1, stage |-> "", result |-> FALSE, error |-> FALSE]

\* a faulty error update that also reports full progress
KwargsFullOnError(k) ==
    CASE k = 1 -> [NoKw EXCEPT !.status = PROCESSING, !.progress = 10, !.stage = "fetching"]
      [] k = 2 -> [NoKw EXCEPT !.progress = 25, !.stage = "llm_processing"]
      [] k = 3 -> [NoKw EXCEPT !.progress = 50]
      [] k = 4 -> [NoKw EXCEPT !.progress = 60, !.stage = "tts_generating"]
      [] k = 5 -> [NoKw EXCEPT !.progress = 90]
      [] k = 6 -> [NoKw EXCEPT !.status = COMPLETED, !.progress = 100, !.result = TRUE]
      [] OTHER -> [NoKw EXCEPT !.status = FAILED, !.progress = 100, !.error = TRUE]

\* the keyword arguments of the seven update_job calls of process_url
Kwargs(k) ==
    CASE k = 1 -> [NoKw EXCEPT !.status = PROCESSING, !.progress = 10, !.stage = "fetching"]
      [] k = 2 -> [NoKw EXCEPT !.progress = 25, !.stage = "llm_processing"]
      [] k = 3 -> [NoKw EXCEPT !.progress = 50]
      [] k = 4 -> [NoKw EXCEPT !.progress = 60, !.stage = "tts_generating"]
      [] k = 5 -> [NoKw EXCEPT !.progress = 90]
      [] k = 6 -> [NoKw EXCEPT !.status = COMPLETED, !.progress = 100, !.result = TRUE]
      [] OTHER -> [NoKw EXCEPT !.status = FAILED, !.error = TRUE]

\* where process_url continues after its k-th update_job
After(k) ==
    CASE k = 1 -> "fetch"
      [] k = 2 -> "llm"
      [] k = 3 -> "script"
      [] k = 4 -> "tts"
      [] k = 5 -> "episode"
      [] OTHER -> "qop"

NewWorker == [pc |-> "idle", k |-> 0, pending |-> <<>>, cur |-> NoTicket, jd |-> NoDoc,
              ok |-> FALSE, extFail |-> FALSE, ttsInit |-> FALSE]

\* -------------------------------------------------------- job_status_updater
\* JobStatusUpdater.update_job, the field updates between the read and the write
update_job(jd, kw) ==
    LET a == IF kw.status # "" THEN [jd EXCEPT !.status = kw.status] ELSE jd
        b == IF kw.progress # -1 THEN [a EXCEPT !.progress = kw.progress] ELSE a
        c == IF kw.stage # "" THEN [b EXCEPT !.stage = kw.stage] ELSE b
        d == IF kw.result
             THEN [c EXCEPT !.status = COMPLETED, !.progress = 100, !.completed_at = TRUE]
             ELSE c
    IN  IF kw.error THEN [d EXCEPT !.status = FAILED, !.completed_at = TRUE] ELSE d

\* ------------------------------------------------------------- api_routes
\* Job.update(status, progress, message, stage)
JobUpdate(job, kw) ==
    LET a == IF kw.status # "" THEN [job EXCEPT !.status = kw.status] ELSE job
        b == IF kw.progress # -1 THEN [a EXCEPT !.progress = kw.progress] ELSE a
    IN  IF kw.stage # "" THEN [b EXCEPT !.stage = kw.stage] ELSE b

\* Job.cancel
JobCancel(job) ==
    [job EXCEPT !.cancelled = TRUE, !.status = CANCELLED, !.completed_at = TRUE]

\* the statuses JobManager.cancel_job accepts
CancelJobAccepts == {PENDING, QUEUED, PROCESSING}

\* JobManager._save_job: the whole in-memory Job replaces the file
save_job(job) == job

\* get_job's reconstruction of a Job from its file: stage and completed_at are not restored
LoadJob(d) ==
    [NewJob EXCEPT !.status = d.status, !.progress = d.progress, !.cancelled = d.cancelled]

\* ---------------------------------------------------------------- file_lock
\* a faulty acquire that does not consult the lock
acquire_ignoring_holders(holders, wk) == TRUE

\* FileLock._acquire_unix: flock(LOCK_EX | LOCK_NB) on a fresh open file description
\* succeeds exactly when no other open file description holds the lock
acquire_unix(holders, wk) == holders = {}

\* ---------------------------------------------------------------- job_queue
\* JobQueue.add_job: one new file in queue/
add_job(dir, qid, job, rc) == dir \cup {[qid |-> qid, job |-> job, rc |-> rc]}

RECURSIVE get_pending_jobs(_)
\* sorted(queue_dir.glob("*.json")) of get_pending_jobs
get_pending_jobs(dir) ==
    IF dir = {} THEN <<>>
    ELSE LET t == CHOOSE x \in dir : \A y \in dir : x.qid <= y.qid
         IN  <<t>> \o get_pending_jobs(dir \ {t})

\* the queue ids add_job can draw for n tickets written one after the other, from
\* base on: "%Y%m%d_%H%M%S" and eight random hex digits.  Calls within one clock second
\* sort by the random part, so the n ids can stand in any order
queue_ids(base, n) ==
    {q \in [1..n -> base..(base + n - 1)] : \A i, k \in 1..n : q[i] = q[k] => i = k}

RECURSIVE migrate_lines(_, _, _)
\* the loop of migrate_from_old_queue: add_job(url, job_id) per line, qids holding
\* the queue id drawn for each line
migrate_lines(dir, lines, qids) ==
    IF lines = <<>> THEN dir
    ELSE migrate_lines(add_job(dir, Head(qids), Head(lines), 0), Tail(lines), Tail(qids))

\* the three ticket directories as one value
Dirs == [q |-> queueDir, p |-> processedDir, f |-> failedDir]

\* JobQueue.mark_processed: rename queue/<name> to processed/<name>
mark_processed(d, t) ==
    IF t \notin d.q THEN d
    ELSE [d EXCEPT !.q = d.q \ {t}, !.p = d.p \cup {t}]

\* JobQueue.mark_failed up to and including the write of failed/<name>
mark_failed_write(d, t) ==
    IF t \notin d.q THEN d
    ELSE [d EXCEPT !.f = d.f \cup {t}]

\* JobQueue.mark_failed: source.unlink()
mark_failed_unlink(d, t) == [d EXCEPT !.q = d.q \ {t}]

\* a faulty retry_job that unlinks the source and writes no new ticket
retry_job_unlink_only(d, t, qid) == [d EXCEPT !.q = d.q \ {t}]

\* a faulty retry_job that copies retry_count instead of incrementing it
retry_job_same_count(d, t, qid) ==
    IF t \notin d.q THEN d
    ELSE [d EXCEPT !.q = add_job(d.q, qid, t.job, t.rc)]

\* JobQueue.retry_job up to and including add_job of the new ticket
retry_job_add(d, t, qid) ==
    IF t \notin d.q \/ t.rc + 1 > DEFAULT_MAX_RETRIES THEN d
    ELSE [d EXCEPT !.q = add_job(d.q, qid, t.job, t.rc + 1)]

\* JobQueue.retry_job: source.unlink()
retry_job_unlink(d, t) == [d EXCEPT !.q = d.q \ {t}]

SetDirs(d) ==
    /\ queueDir' = d.q
    /\ processedDir' = d.p
    /\ failedDir' = d.f

\* ------------------------------------------------------------------ worker
DocOf(job) == IF job \in DOMAIN doc THEN doc[job] ELSE NoDoc

\* what json.load of logs/jobs/<job>.json yields: nothing when the file is absent,
\* truncated or garbled
ReadDoc(job) == IF job \in torn THEN NoDoc ELSE DocOf(job)

\* the for loop of run() moves on: the locals of the finished iteration are dead
Done(ws) == [ws EXCEPT !.pc = "next", !.cur = NoTicket, !.ok = FALSE, !.extFail = FALSE,
                       !.k = 0]

\* process_url reaches its k-th update_job call: skipped when job_id is falsy
Upd(ws, k) ==
    LET r == [ws EXCEPT !.ok = IF k = 6 THEN TRUE ELSE IF k = 7 THEN FALSE ELSE ws.ok]
    IN  IF ws.cur.job = EmptyJobId
        THEN [r EXCEPT !.pc = After(k)]
        ELSE [r EXCEPT !.pc = "upd_r", !.k = k]

\* Worker.__init__ and run() up to the lock: exit at once when the lock is taken
Start(wk) ==
    /\ w[wk].pc = "idle"
    /\ wk = FirstWorker \/ w[FirstWorker].pc # "idle"
    /\ runs < maxRuns
    /\ episodesDir' = TRUE
    /\ IF acquire_unix(lockHolders, wk)
       THEN /\ lockHolders' = lockHolders \cup {wk}
            /\ w' = [w EXCEPT ![wk] = [NewWorker EXCEPT !.pc = "migrate"]]
            /\ runs' = runs + 1
       ELSE /\ w' = [w EXCEPT ![wk] = [NewWorker EXCEPT !.pc = "refused"]]
            /\ UNCHANGED <<lockHolders, runs>>
    /\ UNCHANGED <<torn, restarts, notFound, arrived, maxRuns, queueTxt, queueDir, processedDir, failedDir, nextQid, doc, mem,
                   genpc, nWebhooks, cancelResp, nCancels, audio, catalog, crashes,
                   ticketed, ranRc, cancelLLM>>
    /\ UNCHANGED ext

\* run(): "Another worker is already running, exiting"; the process ends
Exit(wk) ==
    /\ w[wk].pc = "refused"
    /\ w' = [w EXCEPT ![wk] = NewWorker]
    /\ UNCHANGED <<torn, restarts, notFound, arrived, maxRuns, queueTxt, queueDir, processedDir, failedDir, nextQid, doc,
                   mem, genpc, nWebhooks, cancelResp, nCancels, lockHolders,
                   episodesDir, audio, catalog, runs, crashes, ticketed, ranRc,
                   cancelLLM>>
    /\ UNCHANGED ext

\* migrate_from_old_queue: read queue.txt and add one ticket per line
Migrate(wk) ==
    /\ w[wk].pc = "migrate"
    /\ IF queueTxt = <<>>
       THEN /\ w' = [w EXCEPT ![wk].pc = "list"]
            /\ UNCHANGED <<queueDir, nextQid, ticketed>>
       ELSE /\ \E qids \in queue_ids(nextQid, Len(queueTxt)) :
                 queueDir' = migrate_lines(queueDir, queueTxt, qids)
            /\ nextQid' = nextQid + Len(queueTxt)
            /\ ticketed' = ticketed \cup {queueTxt[i] : i \in 1..Len(queueTxt)}
            /\ w' = [w EXCEPT ![wk].pc = "rename"]
    /\ UNCHANGED <<torn, restarts, notFound, arrived, maxRuns, queueTxt, processedDir, failedDir, doc, mem, genpc, nWebhooks,
                   cancelResp, nCancels, lockHolders, episodesDir, audio, catalog,
                   runs, crashes, ranRc, cancelLLM>>
    /\ UNCHANGED ext

\* migrate_from_old_queue: os.rename(queue.txt, queue.txt.backup)
MigrateRename(wk) ==
    /\ w[wk].pc = "rename"
    /\ queueTxt' = <<>>
    /\ w' = [w EXCEPT ![wk].pc = "list"]
    /\ UNCHANGED <<torn, restarts, notFound, arrived, maxRuns, queueDir, processedDir, failedDir, nextQid, doc, mem, genpc,
                   nWebhooks, cancelResp, nCancels, lockHolders, episodesDir, audio,
                   catalog, runs, crashes, ticketed, ranRc, cancelLLM>>
    /\ UNCHANGED ext

\* what json.load yields for the files of queue/ that have no "url" key
NoUrlTickets == {[qid |-> q, job |-> EmptyJobId, rc |-> 0] : q \in noUrl}

\* run(): pending_jobs = get_pending_jobs(); return when empty
List(wk) ==
    /\ w[wk].pc = "list"
    /\ w' = [w EXCEPT ![wk].pending = get_pending_jobs(queueDir \cup NoUrlTickets),
                       ![wk].pc = IF queueDir \cup NoUrlTickets = {}
                                  THEN "release" ELSE "next"]
    /\ UNCHANGED <<torn, restarts, notFound, arrived, maxRuns, queueTxt, queueDir, processedDir, failedDir, nextQid, doc, mem,
                   genpc, nWebhooks, cancelResp, nCancels, lockHolders, episodesDir,
                   audio, catalog, runs, crashes, ticketed, ranRc, cancelLLM>>
    /\ UNCHANGED ext

\* run(): the next job_data of the for loop and the entry of process_url.
\* job_data["url"] raises KeyError on a ticket without the key: the exception leaves
\* the loop and run() through the finally clause
NextJob(wk) ==
    /\ w[wk].pc = "next"
    /\ IF w[wk].pending = <<>>
       THEN /\ w' = [w EXCEPT ![wk].pc = "release"]
            /\ UNCHANGED ranRc
       ELSE IF Head(w[wk].pending).qid \in noUrl
       THEN /\ w' = [w EXCEPT ![wk].pc = "release", ![wk].pending = <<>>]
            /\ UNCHANGED ranRc
       ELSE LET t == Head(w[wk].pending)
                ws == [w[wk] EXCEPT !.cur = t, !.pending = Tail(w[wk].pending),
                                    !.extFail = FALSE]
            IN  /\ w' = [w EXCEPT ![wk] = Upd(ws, 1)]
                /\ ranRc' = IF t.job = 1 THEN [ranRc EXCEPT ![t.rc] = @ + 1] ELSE ranRc
    /\ UNCHANGED <<torn, restarts, notFound, arrived, maxRuns, queueTxt, queueDir, processedDir, failedDir, nextQid, doc, mem,
                   genpc, nWebhooks, cancelResp, nCancels, lockHolders, episodesDir,
                   audio, catalog, runs, crashes, ticketed, cancelLLM>>
    /\ UNCHANGED ext

\* JobStatusUpdater.update_job: read the job file; return False when it is missing
\* or json.load fails
UpdRead(wk) ==
    /\ w[wk].pc = "upd_r"
    /\ IF ReadDoc(w[wk].cur.job) = NoDoc
       THEN w' = [w EXCEPT ![wk].pc = After(w[wk].k), ![wk].k = 0]
       ELSE w' = [w EXCEPT ![wk].jd = ReadDoc(w[wk].cur.job), ![wk].pc = "upd_o"]
    /\ UNCHANGED <<torn, restarts, notFound, arrived, maxRuns, queueTxt, queueDir,
                   processedDir, failedDir, nextQid, doc, mem, genpc, nWebhooks,
                   cancelResp, nCancels, lockHolders, episodesDir, audio, catalog, runs,
                   crashes, ticketed, ranRc, cancelLLM>>
    /\ UNCHANGED ext

\* JobStatusUpdater.update_job: open(job_file, "w") truncates the file
UpdOpen(wk) ==
    /\ w[wk].pc = "upd_o"
    /\ torn' = torn \cup {w[wk].cur.job}
    /\ w' = [w EXCEPT ![wk].pc = "upd_w"]
    /\ UNCHANGED <<restarts, notFound, arrived, maxRuns, queueTxt, queueDir, processedDir,
                   failedDir, nextQid, doc, mem, genpc, nWebhooks, cancelResp, nCancels,
                   lockHolders, episodesDir, audio, catalog, runs, crashes, ticketed,
                   ranRc, cancelLLM>>
    /\ UNCHANGED ext

\* JobStatusUpdater.update_job: json.dump and close.  When the server has rewritten
\* the file since the open, the dump lands over the server's text: the file holds the
\* worker's document, or that document followed by the rest of a longer text
UpdWrite(wk) ==
    /\ w[wk].pc = "upd_w"
    /\ \E garbled \in BOOLEAN :
         /\ garbled => w[wk].cur.job \notin torn
         /\ IF garbled
            THEN /\ torn' = torn \cup {w[wk].cur.job}
                 /\ UNCHANGED doc
            ELSE /\ torn' = torn \ {w[wk].cur.job}
                 /\ doc' = [doc EXCEPT ![w[wk].cur.job] =
                                update_job(w[wk].jd, Kwargs(w[wk].k))]
    /\ w' = [w EXCEPT ![wk].pc = After(w[wk].k), ![wk].jd = NoDoc, ![wk].k = 0]
    /\ UNCHANGED <<restarts, notFound, arrived, maxRuns, queueTxt, queueDir, processedDir,
                   failedDir, nextQid, mem, genpc, nWebhooks, cancelResp, nCancels,
                   lockHolders, episodesDir, audio, catalog, runs, crashes, ticketed,
                   ranRc, cancelLLM>>
    /\ UNCHANGED ext

\* process_url step 1: self.fetcher.fetch(url), the outcome is the environment's
Fetch(wk) ==
    /\ w[wk].pc = "fetch"
    /\ \E success \in BOOLEAN :
         w' = [w EXCEPT ![wk] = IF success THEN Upd(w[wk], 2)
                                ELSE Upd([w[wk] EXCEPT !.extFail = TRUE], 7)]
    /\ UNCHANGED <<torn, restarts, notFound, arrived, maxRuns, queueTxt, queueDir, processedDir, failedDir, nextQid, doc, mem,
                   genpc, nWebhooks, cancelResp, nCancels, lockHolders, episodesDir,
                   audio, catalog, runs, crashes, ticketed, ranRc, cancelLLM>>
    /\ UNCHANGED ext

\* process_url step 2: self.llm.process(title, content)
Llm(wk) ==
    /\ w[wk].pc = "llm"
    /\ \E success \in BOOLEAN :
         w' = [w EXCEPT ![wk] = IF success THEN Upd(w[wk], 3)
                                ELSE Upd([w[wk] EXCEPT !.extFail = TRUE], 7)]
    /\ UNCHANGED <<torn, restarts, notFound, arrived, maxRuns, queueTxt, queueDir, processedDir, failedDir, nextQid, doc, mem,
                   genpc, nWebhooks, cancelResp, nCancels, lockHolders, episodesDir,
                   audio, catalog, runs, crashes, ticketed, ranRc, cancelLLM>>
    /\ UNCHANGED ext

\* TTSGenerator.provider_info: self._provider.get_provider_name() raises
\* AttributeError while _provider is None, that is before the first generate()
provider_info_raises(ws) == ~ws.ttsInit

\* process_url: write the script file, then evaluate the arguments of the
\* "tts_generating" update_job, among them self.tts.provider_info['name']
Script(wk) ==
    /\ w[wk].pc = "script"
    /\ w' = [w EXCEPT ![wk] =
                IF w[wk].cur.job # EmptyJobId /\ provider_info_raises(w[wk])
                THEN Upd(w[wk], 7)
                ELSE Upd(w[wk], 4)]
    /\ UNCHANGED <<torn, restarts, notFound, arrived, maxRuns, queueTxt, queueDir, processedDir, failedDir, nextQid, doc, mem,
                   genpc, nWebhooks, cancelResp, nCancels, lockHolders, episodesDir,
                   audio, catalog, runs, crashes, ticketed, ranRc, cancelLLM>>
    /\ UNCHANGED ext

\* process_url step 3: self.tts.generate(script, audio_path), which first
\* initialises the provider (_init_provider); when create_tts_provider raises,
\* _provider stays None
Tts(wk) ==
    /\ w[wk].pc = "tts"
    /\ \E outcome \in {"success", "failed", "no_provider"} :
         /\ outcome = "no_provider" => ~w[wk].ttsInit
         /\ w' = [w EXCEPT ![wk] =
                    CASE outcome = "success" -> Upd([w[wk] EXCEPT !.ttsInit = TRUE], 5)
                      [] outcome = "failed" ->
                           Upd([w[wk] EXCEPT !.ttsInit = TRUE, !.extFail = TRUE], 7)
                      [] OTHER -> Upd([w[wk] EXCEPT !.extFail = TRUE], 7)]
         /\ audio' = IF outcome = "success" THEN audio \cup {w[wk].cur.job} ELSE audio
    /\ UNCHANGED <<torn, restarts, notFound, arrived, maxRuns, queueTxt, queueDir, processedDir, failedDir, nextQid, doc, mem,
                   genpc, nWebhooks, cancelResp, nCancels, lockHolders, episodesDir,
                   catalog, runs, crashes, ticketed, ranRc, cancelLLM>>
    /\ UNCHANGED ext

\* process_url step 4: add_episode inside its own try/except (a failure is only logged)
Episode(wk) ==
    /\ w[wk].pc = "episode"
    /\ \E saved \in BOOLEAN :
         catalog' = IF saved THEN catalog \cup {w[wk].cur.job} ELSE catalog
    /\ w' = [w EXCEPT ![wk] = Upd(w[wk], 6)]
    /\ UNCHANGED <<torn, restarts, notFound, arrived, maxRuns, queueTxt, queueDir, processedDir, failedDir, nextQid, doc, mem,
                   genpc, nWebhooks, cancelResp, nCancels, lockHolders, episodesDir,
                   audio, runs, crashes, ticketed, ranRc, cancelLLM>>
    /\ UNCHANGED ext

\* run(): result["success"] -> mark_processed(queue_file)
MarkProcessed(wk) ==
    /\ w[wk].pc = "qop"
    /\ w[wk].ok
    /\ SetDirs(mark_processed(Dirs, w[wk].cur))
    /\ w' = [w EXCEPT ![wk] = Done(w[wk])]
    /\ UNCHANGED <<torn, restarts, notFound, arrived, maxRuns, queueTxt, nextQid, doc, mem, genpc, nWebhooks, cancelResp,
                   nCancels, lockHolders, episodesDir, audio, catalog, runs, crashes,
                   ticketed, ranRc, cancelLLM>>
    /\ UNCHANGED ext

\* run(): the failure branch.  retry_count < max_retries -> retry_job, up to and
\* including its add_job; otherwise mark_failed, up to and including its write of
\* failed/<name>.  A missing source makes retry_job return None and mark_failed False.
RetryOrFail(wk) ==
    /\ w[wk].pc = "qop"
    /\ ~w[wk].ok
    /\ IF w[wk].cur.rc < DEFAULT_MAX_RETRIES
       THEN /\ SetDirs(retry_job_add(Dirs, w[wk].cur, nextQid))
            /\ nextQid' = nextQid + 1
       ELSE /\ SetDirs(mark_failed_write(Dirs, w[wk].cur))
            /\ UNCHANGED nextQid
    /\ w' = [w EXCEPT ![wk] = IF w[wk].cur \in queueDir
                              THEN [w[wk] EXCEPT !.pc = "unlink"]
                              ELSE Done(w[wk])]
    /\ UNCHANGED <<torn, restarts, notFound, arrived, maxRuns, queueTxt, doc, mem, genpc, nWebhooks, cancelResp, nCancels,
                   lockHolders, episodesDir, audio, catalog, runs, crashes, ticketed,
                   ranRc, cancelLLM>>
    /\ UNCHANGED ext

\* source.unlink(), the last step of retry_job and of mark_failed
Unlink(wk) ==
    /\ w[wk].pc = "unlink"
    /\ IF w[wk].cur.rc < DEFAULT_MAX_RETRIES
       THEN SetDirs(retry_job_unlink(Dirs, w[wk].cur))
       ELSE SetDirs(mark_failed_unlink(Dirs, w[wk].cur))
    /\ w' = [w EXCEPT ![wk] = Done(w[wk])]
    /\ UNCHANGED <<torn, restarts, notFound, arrived, maxRuns, queueTxt, nextQid, doc, mem, genpc, nWebhooks, cancelResp,
                   nCancels, lockHolders, episodesDir, audio, catalog, runs, crashes,
                   ticketed, ranRc, cancelLLM>>
    /\ UNCHANGED ext

\* FileLock._release_unix, called from the finally of run(); the process ends
\* a faulty release that leaves the descriptor open and locked
release_unix_keep(holders, wk) == holders

release_unix(holders, wk) == holders \ {wk}

Release(wk) ==
    /\ w[wk].pc = "release"
    /\ lockHolders' = release_unix(lockHolders, wk)
    /\ w' = [w EXCEPT ![wk] = NewWorker]
    /\ UNCHANGED <<torn, restarts, notFound, arrived, maxRuns, queueTxt, queueDir, processedDir, failedDir, nextQid, doc, mem,
                   genpc, nWebhooks, cancelResp, nCancels, episodesDir, audio, catalog,
                   runs, crashes, ticketed, ranRc, cancelLLM>>
    /\ UNCHANGED ext

\* the positions of a worker inside process_url
InProcessUrl == {"upd_r", "upd_o", "upd_w", "fetch", "llm", "script", "tts", "episode", "qop"}

\* the worker process is killed: the OS closes its descriptors, which drops the flock
Crash(wk) ==
    /\ w[wk].pc \notin {"idle", "refused"}
    /\ crashes < MaxCrashes
    /\ crashes' = crashes + 1
    /\ lockHolders' = lockHolders \ {wk}
    /\ w' = [w EXCEPT ![wk] = NewWorker]
    /\ UNCHANGED <<torn, restarts, notFound, arrived, maxRuns, queueTxt, queueDir, processedDir, failedDir, nextQid, doc, mem,
                   genpc, nWebhooks, cancelResp, nCancels, episodesDir, audio, catalog,
                   runs, ticketed, ranRc, cancelLLM>>
    /\ diedOn' = IF w[wk].pc \in InProcessUrl /\ w[wk].cur.job \in JobIds
                  THEN diedOn \cup {w[wk].cur.job} ELSE diedOn
    /\ UNCHANGED <<partialFiles, others>>

\* ------------------------------------------------------------------ server
\* the job ids of lines appended to queue.txt while a worker is running a ticket
Arrive(id) ==
    IF \E wk \in Workers : w[wk].pc \in InProcessUrl THEN arrived \cup {id} ELSE arrived

\* handle_generate: job_manager.create_job (memory entry and first file write)
GenCreate(j) ==
    /\ genpc[j] = "none"
    /\ \A i \in JobIds : i < j => genpc[i] # "none"
    /\ mem' = [mem EXCEPT ![j] = NewJob]
    /\ doc' = [doc EXCEPT ![j] = save_job(NewJob)]
    /\ torn' = torn \ {j}
    /\ genpc' = [genpc EXCEPT ![j] = "created"]
    /\ UNCHANGED <<restarts, notFound, arrived, maxRuns, queueTxt, queueDir, processedDir, failedDir, nextQid, nWebhooks,
                   cancelResp, nCancels, lockHolders, episodesDir, audio, catalog, w,
                   runs, crashes, ticketed, ranRc, cancelLLM>>
    /\ UNCHANGED ext

\* handle_generate: append "timestamp|url|job.id" to queue.txt
GenAppend(j) ==
    /\ genpc[j] = "created"
    /\ queueTxt' = Append(queueTxt, j)
    /\ arrived' = Arrive(j)
    /\ genpc' = [genpc EXCEPT ![j] = "appended"]
    /\ UNCHANGED <<torn, restarts, notFound, maxRuns, queueDir, processedDir, failedDir, nextQid, doc, mem, nWebhooks,
                   cancelResp, nCancels, lockHolders, episodesDir, audio, catalog, w,
                   runs, crashes, ticketed, ranRc, cancelLLM>>
    /\ UNCHANGED ext

\* handle_generate: job_manager.update_job(status=QUEUED, progress=5)
GenQueued(j) ==
    /\ genpc[j] = "appended"
    /\ LET job == JobUpdate(mem[j], [NoKw EXCEPT !.status = QUEUED, !.progress = 5])
       IN  /\ mem' = [mem EXCEPT ![j] = job]
           /\ doc' = [doc EXCEPT ![j] = save_job(job)]
           /\ torn' = torn \ {j}
    /\ genpc' = [genpc EXCEPT ![j] = "done"]
    /\ UNCHANGED <<restarts, notFound, arrived, maxRuns, queueTxt, queueDir, processedDir, failedDir, nextQid, nWebhooks,
                   cancelResp, nCancels, lockHolders, episodesDir, audio, catalog, w,
                   runs, crashes, ticketed, ranRc, cancelLLM>>
    /\ UNCHANGED ext

\* WebhookHandler._handle_webhook appends "timestamp|url": the line has no job id
\* field (migration draws a uuid), or an empty one when the url ends in "|"
Webhook ==
    /\ nWebhooks < MaxWebhooks
    /\ nWebhooks' = nWebhooks + 1
    /\ \E id \in {EmptyJobId, UuidJobId} :
         /\ queueTxt' = Append(queueTxt, id)
         /\ arrived' = Arrive(id)
    /\ UNCHANGED <<torn, restarts, notFound, maxRuns, queueDir, processedDir, failedDir, nextQid, doc, mem, genpc,
                   cancelResp, nCancels, lockHolders, episodesDir, audio, catalog, w,
                   runs, crashes, ticketed, ranRc, cancelLLM>>
    /\ UNCHANGED ext

InQueueTxtOf(lines, j) == \E i \in 1..Len(lines) : lines[i] = j

InQueueTxt(j) == InQueueTxtOf(queueTxt, j)

\* JobManager.get_job: the Job held in memory, else the one rebuilt from a readable file
get_job(j) == IF mem[j] # NoDoc THEN mem[j] ELSE LoadJob(ReadDoc(j))

\* get_job returns None: nothing in memory and no readable file
get_job_none(j) == mem[j] = NoDoc /\ ReadDoc(j) = NoDoc

\* handle_progress on a job get_job finds: the Job the response is built from, and
\* whether the request promoted it.  A QUEUED job absent from an existing queue.txt,
\* episodes/ present and holding no mp3 named after the job, is promoted to PROCESSING.
handle_progress(j) ==
    LET job == get_job(j)
        promote == /\ job.status = QUEUED
                   /\ queueTxt # <<>>
                   /\ ~InQueueTxt(j)
                   /\ episodesDir
        upd == JobUpdate(job, [NoKw EXCEPT !.status = PROCESSING, !.progress = 10,
                                           !.stage = "fetching"])
    IN  [promote |-> promote, job |-> IF promote THEN upd ELSE job]

\* handle_progress: 404 when get_job returns None; a promoted job is saved; every other
\* read leaves the files alone
Progress(j) ==
    /\ genpc[j] \in {"none", "done"}
    /\ IF get_job_none(j)
       THEN /\ notFound' = IF j \in torn THEN notFound \cup {j} ELSE notFound
            /\ UNCHANGED <<mem, doc, torn>>
       ELSE LET r == handle_progress(j)
            IN  /\ mem' = [mem EXCEPT ![j] = r.job]
                /\ doc' = IF r.promote THEN [doc EXCEPT ![j] = save_job(r.job)] ELSE doc
                /\ torn' = IF r.promote THEN torn \ {j} ELSE torn
                /\ UNCHANGED notFound
    /\ UNCHANGED <<restarts, arrived, maxRuns, queueTxt, queueDir, processedDir, failedDir,
                   nextQid, genpc, nWebhooks, cancelResp, nCancels, lockHolders,
                   episodesDir, audio, catalog, w, runs, crashes, ticketed, ranRc,
                   cancelLLM>>
    /\ UNCHANGED ext

\* JobManager.cancel_job: only a job held in memory whose in-memory status is accepted
cancel_job(job) == job # NoDoc /\ job.status \in CancelJobAccepts

\* handle_cancel: 200, or 404 for an unknown job, or 400 with the status get_job returns.
\* A client knows a job id from the response of handle_generate, not earlier.
Cancel(j) ==
    /\ nCancels < MaxCancels
    /\ genpc[j] \in {"none", "done"}
    /\ nCancels' = nCancels + 1
    /\ IF cancel_job(mem[j])
       THEN /\ mem' = [mem EXCEPT ![j] = JobCancel(mem[j])]
            /\ doc' = [doc EXCEPT ![j] = save_job(JobCancel(mem[j]))]
            /\ torn' = torn \ {j}
            /\ cancelResp' = [job |-> j, code |-> 200]
            /\ cancelLLM' = IF \E wk \in Workers : w[wk].pc = "llm" /\ w[wk].cur.job = j
                            THEN cancelLLM \cup {j} ELSE cancelLLM
       ELSE /\ mem' = IF get_job_none(j) THEN mem ELSE [mem EXCEPT ![j] = get_job(j)]
            /\ cancelResp' = [job |-> j, code |-> IF get_job_none(j) THEN 404 ELSE 400]
            /\ UNCHANGED <<doc, cancelLLM, torn>>
    /\ UNCHANGED <<restarts, notFound, arrived, maxRuns, queueTxt, queueDir, processedDir, failedDir, nextQid, genpc,
                   nWebhooks, lockHolders, episodesDir, audio, catalog, w, runs,
                   crashes, ticketed, ranRc>>
    /\ UNCHANGED ext

\* the server process is restarted between requests: JobManager.__init__ starts with an
\* empty _jobs, _load_existing_jobs reads the files and keeps nothing
Restart ==
    /\ restarts < MaxRestarts
    /\ \A j \in JobIds : genpc[j] \in {"none", "done"}
    /\ restarts' = restarts + 1
    /\ mem' = [j \in JobIds |-> NoDoc]
    /\ UNCHANGED <<torn, notFound, arrived, maxRuns, queueTxt, queueDir, processedDir,
                   failedDir, nextQid, doc, genpc, nWebhooks, cancelResp, nCancels,
                   lockHolders, episodesDir, audio, catalog, w, runs, crashes, ticketed,
                   ranRc, cancelLLM>>
    /\ UNCHANGED ext

\* ------------------------------------------------------------ specification
Init ==
    /\ queueTxt = <<>>
    /\ queueDir = {}
    /\ processedDir = {}
    /\ failedDir = {}
    /\ nextQid = 1
    /\ doc = [j \in JobIds |-> NoDoc]
    /\ mem = [j \in JobIds |-> NoDoc]
    /\ genpc = [j \in JobIds |-> "none"]
    /\ nWebhooks = 0
    /\ cancelResp = [job |-> 0, code |-> 0]
    /\ nCancels = 0
    /\ lockHolders = {}
    /\ episodesDir = FALSE
    /\ audio = {}
    /\ catalog = {}
    /\ w = [wk \in Workers |-> NewWorker]
    /\ runs = 0
    /\ maxRuns = MaxLiveRuns
    /\ crashes = 0
    /\ ticketed = {}
    /\ ranRc = [r \in 0..DEFAULT_MAX_RETRIES |-> 0]
    /\ cancelLLM = {}
    /\ torn = {}
    /\ restarts = 0
    /\ notFound = {}
    /\ arrived = {}
    /\ ExtInit

WorkerStep(wk) ==
    \/ Start(wk)
    \/ Exit(wk)
    \/ Migrate(wk)
    \/ MigrateRename(wk)
    \/ List(wk)
    \/ NextJob(wk)
    \/ UpdRead(wk)
    \/ UpdOpen(wk)
    \/ UpdWrite(wk)
    \/ Fetch(wk)
    \/ Llm(wk)
    \/ Script(wk)
    \/ Tts(wk)
    \/ Episode(wk)
    \/ MarkProcessed(wk)
    \/ RetryOrFail(wk)
    \/ Unlink(wk)
    \/ Release(wk)

ServerStep ==
    \/ \E j \in JobIds : GenCreate(j)
    \/ \E j \in JobIds : GenAppend(j)
    \/ \E j \in JobIds : GenQueued(j)
    \/ Webhook
    \/ \E j \in JobIds : Progress(j)
    \/ \E j \in JobIds : Cancel(j)

\* the lines queue.txt can hold once the server has served its requests: one per
\* accepted /api/generate (jobs 1..n, in any order) and one per /webhook
FedLines ==
    {ls \in UNION {[1..n -> JobIds \cup {EmptyJobId, UuidJobId}] : n \in 0..(MaxJobs + MaxWebhooks)} :
        /\ \A i, k \in 1..Len(ls) : ls[i] \in JobIds /\ ls[i] = ls[k] => i = k
        /\ \A j \in JobIds : InQueueTxtOf(ls, j) => \A i \in 1..j : InQueueTxtOf(ls, i)
        /\ Cardinality({i \in 1..Len(ls) : ls[i] \notin JobIds}) <= MaxWebhooks}

\* the state after the server has served every request and before any worker ran
Fed(ls) ==
    /\ queueTxt = ls
    /\ LET gen == {ls[i] : i \in 1..Len(ls)} \cap JobIds
           queued == JobUpdate(NewJob, [NoKw EXCEPT !.status = QUEUED, !.progress = 5])
       IN  /\ doc = [j \in JobIds |-> IF j \in gen THEN save_job(queued) ELSE NoDoc]
           /\ mem = [j \in JobIds |-> IF j \in gen THEN queued ELSE NoDoc]
           /\ genpc = [j \in JobIds |-> IF j \in gen THEN "done" ELSE "none"]
    /\ nWebhooks = Cardinality({i \in 1..Len(ls) : ls[i] \notin JobIds})
    /\ queueDir = {}
    /\ processedDir = {}
    /\ failedDir = {}
    /\ nextQid = 1
    /\ cancelResp = [job |-> 0, code |-> 0]
    /\ nCancels = 0
    /\ lockHolders = {}
    /\ episodesDir = FALSE
    /\ audio = {}
    /\ catalog = {}
    /\ w = [wk \in Workers |-> NewWorker]
    /\ runs = 0
    /\ crashes = 0
    /\ ticketed = {}
    /\ ranRc = [r \in 0..DEFAULT_MAX_RETRIES |-> 0]
    /\ cancelLLM = {}
    /\ torn = {}
    /\ restarts = 0
    /\ notFound = {}
    /\ arrived = {}

\* a fed queue and MaxRuns drain passes to come
InitDrain ==
    /\ maxRuns = MaxRuns
    /\ ExtInit
    /\ \E ls \in {l \in FedLines : Len(l) <= MaxLines} : Fed(ls)

\* the state r failed drain passes over the single line of job 1 leave behind (each
\* run failing in fetch): the r-th retry ticket pending, the document FAILED
LeftByFailedDrains(r) ==
    /\ queueTxt = <<>>
    /\ queueDir = {[qid |-> r + 1, job |-> 1, rc |-> r]}
    /\ processedDir = {}
    /\ failedDir = {}
    /\ nextQid = r + 2
    /\ LET queued == JobUpdate(NewJob, [NoKw EXCEPT !.status = QUEUED, !.progress = 5])
           failed == update_job(update_job(save_job(queued), Kwargs(1)), Kwargs(7))
       IN  /\ doc = [j \in JobIds |-> IF j = 1 THEN failed ELSE NoDoc]
           /\ mem = [j \in JobIds |-> IF j = 1 THEN queued ELSE NoDoc]
    /\ genpc = [j \in JobIds |-> IF j = 1 THEN "done" ELSE "none"]
    /\ nWebhooks = 0
    /\ cancelResp = [job |-> 0, code |-> 0]
    /\ nCancels = 0
    /\ lockHolders = {}
    /\ episodesDir = TRUE
    /\ audio = {}
    /\ catalog = {}
    /\ w = [wk \in Workers |-> NewWorker]
    /\ runs = 0
    /\ crashes = 0
    /\ ticketed = {1}
    /\ ranRc = [x \in 0..DEFAULT_MAX_RETRIES |-> IF x < r THEN 1 ELSE 0]
    /\ cancelLLM = {}
    /\ torn = {}
    /\ restarts = 0
    /\ notFound = {}
    /\ arrived = {}

\* a fed queue, or what earlier failed drain passes left, and MaxLiveRuns passes to come
InitCrashDrain ==
    /\ maxRuns = MaxLiveRuns
    /\ ExtInit
    /\ \/ \E ls \in {l \in FedLines : Len(l) <= MaxCrashLines} : Fed(ls)
       \/ \E r \in 1..DEFAULT_MAX_RETRIES : LeftByFailedDrains(r)

\* the workers alone, without process kills
NextDrain == \E wk \in Workers : WorkerStep(wk)

\* the workers alone, with process kills
NextCrashDrain ==
    \/ \E wk \in Workers : WorkerStep(wk)
    \/ \E wk \in Workers : Crash(wk)

\* workers, server requests and process kills
Next ==
    \/ \E wk \in Workers : WorkerStep(wk)
    \/ ServerStep
    \/ \E wk \in Workers : Crash(wk)

Spec == Init /\ [][Next]_vars

\* job 1 accepted and queued behind a webhook line with an empty job id
InitServe ==
    /\ maxRuns = MaxServeRuns
    /\ ExtInit
    /\ Fed(<<EmptyJobId, 1>>)

\* the workers, progress reads and server restarts
NextServe ==
    \/ \E wk \in Workers : WorkerStep(wk)
    \/ \E j \in JobIds : Progress(j)
    \/ Restart

\* drain passes over one accepted job while the server, restarted at any time, answers
\* progress reads
ServeSpec == InitServe /\ [][NextServe]_vars

\* drain passes over a queue fed beforehand
DrainSpec == InitDrain /\ [][NextDrain]_vars

\* the same with worker processes killed at any point
CrashDrainSpec == InitCrashDrain /\ [][NextCrashDrain]_vars

\* ------------------------------------------------- kills inside add_job
\* add_job cut short between open(queue_file, "w") and the end of json.dump: the file
\* named by the queue id is in queue/ and does not parse.  get_pending_jobs globs it,
\* fails in json.load and skips it; nothing removes it
add_job_killed(partial, qid) == partial \cup {qid}

\* the worker process is killed inside add_job: in migrate_from_old_queue at the i-th
\* line of queue.txt, or in retry_job
CrashInAddJob(wk) ==
    /\ crashes < MaxCrashes
    /\ \/ /\ w[wk].pc = "migrate"
          /\ queueTxt # <<>>
          /\ \E i \in 1..Len(queueTxt) : \E qids \in queue_ids(nextQid, i) :
                /\ queueDir' = migrate_lines(queueDir, SubSeq(queueTxt, 1, i - 1),
                                             SubSeq(qids, 1, i - 1))
                /\ partialFiles' = add_job_killed(partialFiles, qids[i])
                /\ nextQid' = nextQid + i
                /\ ticketed' = ticketed \cup {queueTxt[n] : n \in 1..(i - 1)}
          /\ UNCHANGED diedOn
       \/ /\ w[wk].pc = "qop"
          /\ ~w[wk].ok
          /\ w[wk].cur.rc < DEFAULT_MAX_RETRIES
          /\ w[wk].cur \in queueDir
          /\ partialFiles' = add_job_killed(partialFiles, nextQid)
          /\ nextQid' = nextQid + 1
          /\ diedOn' = IF w[wk].cur.job \in JobIds
                       THEN diedOn \cup {w[wk].cur.job} ELSE diedOn
          /\ UNCHANGED <<queueDir, ticketed>>
    /\ crashes' = crashes + 1
    /\ lockHolders' = lockHolders \ {wk}
    /\ w' = [w EXCEPT ![wk] = NewWorker]
    /\ UNCHANGED <<torn, restarts, notFound, arrived, maxRuns, queueTxt, processedDir,
                   failedDir, doc, mem, genpc, nWebhooks, cancelResp, nCancels,
                   episodesDir, audio, catalog, runs, ranRc, cancelLLM, others>>

NextAddCrash ==
    \/ NextCrashDrain
    \/ \E wk \in Workers : CrashInAddJob(wk)

\* drain passes with worker processes killed at any point, inside add_job included
AddCrashSpec == InitCrashDrain /\ [][NextAddCrash]_vars

\* a fed queue and enough drain passes to come for every retry of its tickets
InitFairCrash ==
    /\ maxRuns = MaxRuns
    /\ ExtInit
    /\ \E ls \in {l \in FedLines : Len(l) <= MaxCrashLines} : Fed(ls)

\* a worker process that is not killed keeps running, and the scheduler starts the
\* drain passes it has left
FairCrashDrainSpec ==
    InitFairCrash /\ [][NextCrashDrain]_vars /\ WF_vars(\E wk \in Workers : WorkerStep(wk))

\* --------------------------------------------------------------- providers
Kinds == {"llm", "tts"}

\* ModelHealthChecker.FALLBACK_MODELS
FALLBACK_MODELS(kind) ==
    IF kind = "llm" THEN <<"nvidia", "openai">> ELSE <<"volcengine", "openai", "edge-tts">>

ProvidersOf(kind) == {FALLBACK_MODELS(kind)[i] : i \in 1..Len(FALLBACK_MODELS(kind))}

RECURSIVE first_healthy(_, _)
\* the for loop of get_fallback_config: the first candidate whose health check says
\* HEALTHY, "none" for (None, error_msg)
first_healthy(candidates, healthy) ==
    IF candidates = <<>> THEN "none"
    ELSE IF Head(candidates) \in healthy THEN Head(candidates)
    ELSE first_healthy(Tail(candidates), healthy)

\* get_fallback_config: candidates = [p for p in fallback_providers if p != original]
get_fallback_config(kind, original, healthy) ==
    first_healthy(SelectSeq(FALLBACK_MODELS(kind), LAMBDA p : p # original), healthy)

\* a get_fallback_config call for a configured provider, made by the thread that also
\* runs the generators and so not inside one of their calls; healthy holds the other
\* providers whose probe answers
GetFallback ==
    /\ stage.pc = "idle"
    /\ \E kind \in Kinds : \E original \in ProvidersOf(kind) :
         \E healthy \in SUBSET (ProvidersOf(kind) \ {original}) :
            fallback' = [kind |-> kind, original |-> original, healthy |-> healthy,
                         result |-> get_fallback_config(kind, original, healthy)]
    /\ UNCHANGED <<queueVars, stage, metadata, userFiles, limit, lastOp, aux>>

\* TTSGenerator.__init__ / LLMProcessor.__init__ with a config that has an api_key:
\* self._config = config, self._provider = None
NewStage(kind, config) == [NoStage EXCEPT !.kind = kind, !.config = config]

\* _init_provider: "if self._provider: return", else create the provider of _config
init_provider(g) ==
    IF g.provider # "none" THEN g ELSE [g EXCEPT !.provider = g.config]

\* what a provider call does: success, {"success": False, ...}, or an exception
Outcomes == {"ok", "fail", "raise"}

\* what get_health_checker().report_tts_failure() / report_llm_failure() does.
\* ModelHealthChecker defines neither method, so with the checker of
\* model_health_checker.py the call raises AttributeError; the checkers the tests
\* substitute return a config or raise RuntimeError
SwitchOutcomes(kind) == {"attribute_error", "runtime_error"} \cup ProvidersOf(kind)

\* _try_switch_provider / _try_switch_model when the report returns new_config:
\* self._config = new_config; self._init_provider()
try_switch(g, new_config) == init_provider([g EXCEPT !.config = new_config])

\* for attempt in range(max_retries), with a the number of iterations begun
range_has_next_inclusive(a) == a <= max_retries

range_has_next(a) == a < max_retries

\* one iteration of the loop of generate() / process(): the provider call with
\* outcome out and, when it failed, the switch with outcome sw
attempt(g, out, sw) ==
    LET g1 == [g EXCEPT !.sent = Append(@, [to |-> g.provider, out |-> out])]
        g2 == [g1 EXCEPT !.switched = Append(@, sw)]
    IN  CASE out = "ok" ->
               [g1 EXCEPT !.pc = "idle", !.result = "success"]
          [] out # "ok" /\ sw = "attribute_error" ->
               [g2 EXCEPT !.pc = "idle", !.result = "raised"]
          [] out = "fail" /\ sw = "runtime_error" ->
               [g2 EXCEPT !.pc = "idle", !.result = "error_msg"]
          [] out = "raise" /\ sw = "runtime_error" ->
               [g2 EXCEPT !.pc = "idle", !.result = "exhausted"]
          [] OTHER ->
               LET g3 == [try_switch(g2, sw) EXCEPT !.attempt = @ + 1]
               IN  IF range_has_next(g3.attempt) THEN g3
                   ELSE [g3 EXCEPT !.pc = "idle", !.result = "exhausted"]

\* generate() / process() is entered: _init_provider, then the loop
Call ==
    /\ stage.kind # "none"
    /\ stage.pc = "idle"
    /\ stage.ncalls < MaxCalls
    /\ stage' = [init_provider(stage) EXCEPT !.pc = "loop", !.attempt = 0, !.sent = <<>>,
                                             !.switched = <<>>, !.result = "none",
                                             !.ncalls = @ + 1]
    /\ UNCHANGED <<queueVars, fallback, metadata, userFiles, limit, lastOp, aux>>

Attempt ==
    /\ stage.pc = "loop"
    /\ \E out \in Outcomes : \E sw \in SwitchOutcomes(stage.kind) :
          stage' = attempt(stage, out, sw)
    /\ UNCHANGED <<queueVars, fallback, metadata, userFiles, limit, lastOp, aux>>

\* a generator of either kind constructed for one of its providers
InitProviders ==
    /\ maxRuns = 0
    /\ Fed(<<>>)
    /\ QueueExtInit
    /\ CatalogIdle
    /\ AuxIdle
    /\ fallback = NoFallback
    /\ \E kind \in Kinds : \E config \in ProvidersOf(kind) : stage = NewStage(kind, config)

NextProviders ==
    \/ Call
    \/ Attempt
    \/ GetFallback

ProviderSpec == InitProviders /\ [][NextProviders]_vars

\* --------------------------------------------------------- episode catalog
EpisodeIds == 1..MaxEpisodeIds

\* episode_data.get("id") of an episode_data without an id
NoEpisodeId == 0

\* the fields of episode_data other than the id
Versions == {"a", "b"}

\* episodes/<user>/<audio_file> and episodes/<user>/<id>.txt of an episode; the worker
\* names the audio file <episode_id>.<format>
audio_file(id) == [kind |-> "audio", id |-> id]

script_file(id) == [kind |-> "script", id |-> id]

\* the for loop of add_episode: the first index whose entry has the id, 0 when none
index_of_id(md, id) ==
    IF \E i \in 1..Len(md) : md[i].id = id
    THEN CHOOSE i \in 1..Len(md) : md[i].id = id /\ \A k \in 1..(i - 1) : md[k].id # id
    ELSE 0

\* a replacement that moves the entry to the front
move_to_front(md, i, ep) ==
    <<ep>> \o SubSeq(md, 1, i - 1) \o SubSeq(md, i + 1, Len(md))

\* metadata["episodes"][i] = episode_data
replace_at(md, i, ep) == [md EXCEPT ![i] = ep]

\* an eviction test that lets the catalog grow one past the limit
over_limit(n, lim) == n > lim

\* len(metadata["episodes"]) >= limit
at_limit(n, lim) == n >= lim

\* a cleanup that forgets the script file
unlink_audio_only(files, ep) == files \ {audio_file(ep.id)}

\* the cleanup of the removed entry: unlink its audio file and its script file when
\* they exist
unlink_removed(files, ep) == files \ {audio_file(ep.id), script_file(ep.id)}

\* EpisodeMetadataManager.add_episode: the new list, the files left and the return value
add_episode(md, files, ep, lim) ==
    LET i == index_of_id(md, ep.id)
    IN  IF ep.id = NoEpisodeId
        THEN [md |-> md, files |-> files, ret |-> FALSE, evicted |-> 0]
        ELSE IF i # 0
        THEN [md |-> replace_at(md, i, ep), files |-> files, ret |-> TRUE, evicted |-> 0]
        ELSE IF at_limit(Len(md), lim)
        THEN IF md = <<>>
             THEN \* pop() of an empty list raises IndexError: "Error adding episode"
                  [md |-> md, files |-> files, ret |-> FALSE, evicted |-> 0]
             ELSE LET removed_ep == md[Len(md)]
                  IN  [md |-> <<ep>> \o SubSeq(md, 1, Len(md) - 1),
                       files |-> unlink_removed(files, removed_ep),
                       ret |-> TRUE, evicted |-> removed_ep.id]
        ELSE [md |-> <<ep>> \o md, files |-> files, ret |-> TRUE, evicted |-> 0]

\* EpisodeMetadataManager.delete_episode
delete_episode(md, id) == SelectSeq(md, LAMBDA ep : ep.id # id)

\* process_url writes the script and the audio of an episode before it adds the episode
WriteFiles(id) ==
    /\ userFiles' = userFiles \cup {audio_file(id), script_file(id)}
    /\ lastOp' = [NoOp EXCEPT !.op = "write", !.id = id]
    /\ UNCHANGED <<queueVars, stage, fallback, metadata, limit, aux>>

AddEpisode(id, data) ==
    /\ LET r == add_episode(metadata, userFiles, [id |-> id, data |-> data], limit)
       IN  /\ metadata' = r.md
           /\ userFiles' = r.files
           /\ lastOp' = [op |-> "add", id |-> id, evicted |-> r.evicted,
                         replaced |-> index_of_id(metadata, id) # 0]
    /\ UNCHANGED <<queueVars, stage, fallback, limit, aux>>

DeleteEpisode(id) ==
    /\ metadata' = delete_episode(metadata, id)
    /\ lastOp' = [NoOp EXCEPT !.op = "delete", !.id = id]
    /\ UNCHANGED <<queueVars, stage, fallback, userFiles, limit, aux>>

\* a manager just constructed over an empty user directory (_ensure_metadata_file
\* writes {"episodes": []}) and the limit its add_episode calls use
InitCatalog ==
    /\ maxRuns = 0
    /\ Fed(<<>>)
    /\ QueueExtInit
    /\ ProvidersIdle
    /\ AuxIdle
    /\ metadata = <<>>
    /\ userFiles = {}
    /\ lastOp = NoOp
    /\ limit \in 1..MaxLimit

NextCatalog ==
    \/ \E id \in EpisodeIds : WriteFiles(id)
    \/ \E id \in EpisodeIds \cup {NoEpisodeId} : \E data \in Versions : AddEpisode(id, data)
    \/ \E id \in EpisodeIds : DeleteEpisode(id)

CatalogSpec == InitCatalog /\ [][NextCatalog]_vars

\* ------------------------------------------------- Job Status round trip
\* A datetime is a count of half seconds since the epoch of the model, 1 or more; NoTime
\* is None.  isoformat() prints the microsecond part only when it is not zero, and
\* fromisoformat() reads both shapes; a printed datetime is <<seconds>> or
\* <<seconds, fraction>>, JSON null is <<>>.
isoformat(t) == IF t % 2 = 0 THEN <<t \div 2>> ELSE <<t \div 2, t % 2>>

fromisoformat(str) == str[1] * 2 + (IF Len(str) = 2 THEN str[2] ELSE 0)

\* Job.__init__ at time now
Job(now) == [status |-> PENDING, progress |-> 0, stage |-> "", stage_start_time |-> NoTime,
             stages |-> <<>>, created_at |-> now, updated_at |-> now,
             completed_at |-> NoTime, cancelled |-> FALSE]

\* Job.update(status, progress, stage) at time now
update(job, kw, now) ==
    LET a == IF kw.status # "" THEN [job EXCEPT !.status = kw.status] ELSE job
        b == IF kw.progress # -1 THEN [a EXCEPT !.progress = kw.progress] ELSE a
        c == IF kw.stage # ""
             THEN [b EXCEPT !.stage = kw.stage, !.stage_start_time = now]
             ELSE b
        d == [c EXCEPT !.updated_at = now]
    IN  IF kw.stage # ""
        THEN [d EXCEPT !.stages = Append(@, [stage |-> kw.stage, progress |-> d.progress,
                                              timestamp |-> isoformat(now)])]
        ELSE d

\* Job.set_result at time now
set_result(job, now) ==
    [job EXCEPT !.status = COMPLETED, !.completed_at = now, !.progress = 100]

\* Job.set_error at time now
set_error(job, now) == [job EXCEPT !.status = FAILED, !.completed_at = now]

\* Job.cancel at time now
cancel(job, now) ==
    [job EXCEPT !.cancelled = TRUE, !.status = CANCELLED, !.completed_at = now]

\* Job.to_dict: stage_start_time is not among the keys
to_dict(job) ==
    [status |-> job.status, progress |-> job.progress,
     created_at |-> isoformat(job.created_at),
     updated_at |-> isoformat(job.updated_at),
     completed_at |-> IF job.completed_at # NoTime THEN isoformat(job.completed_at) ELSE <<>>,
     cancelled |-> job.cancelled, stage |-> job.stage, stages |-> job.stages]

\* Job.from_dict at time now: the constructor, then the keys of the dictionary
from_dict(data, now) ==
    [Job(now) EXCEPT
        !.status = data.status, !.progress = data.progress,
        !.cancelled = data.cancelled, !.stage = data.stage, !.stages = data.stages,
        !.created_at = IF data.created_at # <<>> THEN fromisoformat(data.created_at) ELSE @,
        !.updated_at = IF data.updated_at # <<>> THEN fromisoformat(data.updated_at) ELSE @,
        !.completed_at = IF data.completed_at # <<>> THEN fromisoformat(data.completed_at) ELSE @]

\* JobManager.get_job on a job that is not in memory, at time now: the constructor, then
\* status, progress and cancelled of the document (message, error, result left out here)
get_job_from_file(data, now) ==
    [Job(now) EXCEPT
        !.status = data.status, !.progress = data.progress, !.cancelled = data.cancelled]

\* the keyword arguments JobManager.update_job is called with
UpdateKwargs ==
    { [NoKw EXCEPT !.status = QUEUED, !.progress = 5],
      [NoKw EXCEPT !.status = PROCESSING, !.progress = 10, !.stage = "fetching"],
      [NoKw EXCEPT !.progress = 25, !.stage = "llm_processing"] }

Tick(r) == [r EXCEPT !.now = @ + 1, !.copy = NoFullJob, !.how = "none"]

\* JobManager.update_job on the job
RtUpdate ==
    /\ rt.now < MaxClock
    /\ rt.job.status \notin {COMPLETED, FAILED, CANCELLED}
    /\ \E kw \in UpdateKwargs :
          rt' = [Tick(rt) EXCEPT !.job = update(rt.job, kw, rt.now + 1)]
    /\ UNCHANGED <<queueVars, componentVars, hook, tk, noUrl, tmo>>

\* JobManager.set_job_result, set_job_error or cancel_job on the job
RtFinish ==
    /\ rt.now < MaxClock
    /\ rt.job.completed_at = NoTime
    /\ \/ rt' = [Tick(rt) EXCEPT !.job = set_result(rt.job, rt.now + 1)]
       \/ rt' = [Tick(rt) EXCEPT !.job = set_error(rt.job, rt.now + 1)]
       \/ /\ rt.job.status \in CancelJobAccepts
          /\ rt' = [Tick(rt) EXCEPT !.job = cancel(rt.job, rt.now + 1)]
    /\ UNCHANGED <<queueVars, componentVars, hook, tk, noUrl, tmo>>

\* Job.from_dict(job.to_dict()), one clock step later
RtFromDict ==
    /\ rt.now < MaxClock + 1
    /\ rt' = [rt EXCEPT !.now = @ + 1, !.how = "dict",
                        !.copy = from_dict(to_dict(rt.job), rt.now + 1)]
    /\ UNCHANGED <<queueVars, componentVars, hook, tk, noUrl, tmo>>

\* _save_job, then get_job in a server process that does not hold the job in memory
RtGetJob ==
    /\ rt.now < MaxClock + 1
    /\ rt' = [rt EXCEPT !.now = @ + 1, !.how = "file",
                        !.copy = get_job_from_file(to_dict(rt.job), rt.now + 1)]
    /\ UNCHANGED <<queueVars, componentVars, hook, tk, noUrl, tmo>>

\* a Job just constructed
InitRoundTrip ==
    /\ maxRuns = 0
    /\ Fed(<<>>)
    /\ QueueExtInit
    /\ ProvidersIdle
    /\ CatalogIdle
    /\ tmo = NoTimeout
    /\ hook = NoHook
    /\ tk = NoRequest
    /\ noUrl = {}
    /\ rt = [job |-> Job(1), now |-> 1, copy |-> NoFullJob, how |-> "none"]

NextRoundTrip ==
    \/ RtUpdate
    \/ RtFinish
    \/ RtFromDict
    \/ RtGetJob

RoundTripSpec == InitRoundTrip /\ [][NextRoundTrip]_vars

\* ---------------------------------------------------------- webhook_manager
\* the URLs a config["webhooks"] list is made of
Webhooks == 1..MaxUrls

\* what requests.post followed by raise_for_status does
PostOutcomes == {"ok", "connection_error", "timeout", "http_error"}

NetworkErrors == {"connection_error", "timeout"}

\* the exception that leaves the try statement around the POST: `except Exception`
\* catches whatever the POST raised and logs it
escapes(out) == "none"

\* retry_if_exception_type((ConnectionError, TimeoutError)) on what the call raised
retry_if_exception_type(raised) == raised \in NetworkErrors

\* tenacity's decision after an attempt of the decorated call: return or raise to the
\* caller, or run the call again
network_retry(raised, attempt_number) ==
    IF retry_if_exception_type(raised) /\ attempt_number < stop_after_attempt
    THEN "again"
    ELSE "stop"

\* send_notification is called: nothing to do unless enabled with a webhook configured
HookSend ==
    /\ hook.pc = "idle"
    /\ hook.ncalls < MaxNotifications
    /\ hook' = IF hook.enabled /\ hook.webhooks # {}
               THEN [hook EXCEPT !.pc = "loop", !.i = 1, !.attempt_number = 1,
                                 !.raised = "none", !.posts = <<>>, !.ncalls = @ + 1]
               ELSE [hook EXCEPT !.posts = <<>>, !.ncalls = @ + 1]
    /\ UNCHANGED <<queueVars, componentVars, rt, tk, noUrl, tmo>>

\* one pass of `for webhook_url in self.webhooks`: the POST and its except clause
HookPost ==
    /\ hook.pc = "loop"
    /\ hook.raised = "none"
    /\ hook.i \in hook.webhooks
    /\ \E out \in PostOutcomes :
          hook' = [hook EXCEPT !.posts = Append(@, [url |-> hook.i, out |-> out]),
                               !.raised = escapes(out),
                               !.i = @ + 1]
    /\ UNCHANGED <<queueVars, componentVars, rt, tk, noUrl, tmo>>

\* the decorated call ends, by the end of the loop or by an exception: the decorator
\* runs it again or hands the outcome to the caller
HookReturn ==
    /\ hook.pc = "loop"
    /\ hook.raised # "none" \/ hook.i \notin hook.webhooks
    /\ hook' = IF network_retry(hook.raised, hook.attempt_number) = "again"
               THEN [hook EXCEPT !.i = 1, !.raised = "none", !.attempt_number = @ + 1]
               ELSE [hook EXCEPT !.pc = "idle"]
    /\ UNCHANGED <<queueVars, componentVars, rt, tk, noUrl, tmo>>

\* a WebhookManager constructed from its config section
InitWebhook ==
    /\ maxRuns = 0
    /\ Fed(<<>>)
    /\ QueueExtInit
    /\ ProvidersIdle
    /\ CatalogIdle
    /\ tmo = NoTimeout
    /\ rt = NoRoundTrip
    /\ tk = NoRequest
    /\ noUrl = {}
    /\ \E en \in BOOLEAN : \E n \in 0..MaxUrls :
          hook = [NoHook EXCEPT !.enabled = en, !.webhooks = 1..n]

NextWebhook ==
    \/ HookSend
    \/ HookPost
    \/ HookReturn

WebhookSpec == InitWebhook /\ [][NextWebhook]_vars

\* ------------------------------------------- from a request to process_url
\* what a request body, or an add_job call, may say about the user, the summary and the
\* TTS options: "absent" is a key left out (an argument not passed)
UserIdArgs == {"absent", "default", "alice"}

NeedSummaryArgs == {"absent", "true", "false"}

TtsConfigArgs == {"absent", "empty", "voice"}

\* what logs/jobs/<job_id>.json may hold when the worker opens it: no file, a file that
\* does not parse, a document written by api_routes.Job.to_dict (no need_summary and no
\* tts_config key), a document that has the keys
Documents == {"absent", "unreadable", "no_field", "true", "false"}

\* data.get("need_summary", True) on a document; tts_config goes the same way
doc_need_summary(document) == document # "false"

doc_tts_config(document) == IF document \in {"true", "false"} THEN "voice" ELSE "empty"

\* JobQueue.add_job: the ticket it writes, defaults for the arguments not passed
add_job_fields(job_id, args, retry_count) ==
    [job_id |-> job_id,
     user_id |-> IF args.user_id = "absent" THEN "default" ELSE args.user_id,
     need_summary |-> args.need_summary # "false",
     tts_config |-> IF args.tts_config \in {"absent", "empty"} THEN "empty" ELSE "voice",
     retry_count |-> retry_count,
     max_retries |-> DEFAULT_MAX_RETRIES]

\* handle_generate: url, llm_model and tts_model are read from the body, nothing else;
\* create_job writes the document, the line appended to queue.txt is "timestamp|url|job_id"
TkGenerate ==
    /\ tk.pc = "request"
    /\ tk.route = "api"
    /\ tk' = [tk EXCEPT !.pc = "queued", !.job_id = 1, !.document = "no_field",
                        !.line = <<"url", 1>>]
    /\ UNCHANGED <<queueVars, componentVars, rt, hook, noUrl, tmo>>

\* migrate_from_old_queue on that line: queue.add_job(url, job_id)
TkMigrate ==
    /\ tk.pc = "queued"
    /\ tk' = [tk EXCEPT !.pc = "ticket", !.line = <<>>,
                        !.ticket = add_job_fields(tk.line[2], NoArgs, 0)]
    /\ UNCHANGED <<queueVars, componentVars, rt, hook, noUrl, tmo>>

\* a caller of JobQueue.add_job that passes the arguments itself
TkAddJob ==
    /\ tk.pc = "request"
    /\ tk.route = "add_job"
    /\ tk' = [tk EXCEPT !.pc = "ticket", !.ticket = add_job_fields(tk.job_id, tk.args, 0)]
    /\ UNCHANGED <<queueVars, componentVars, rt, hook, noUrl, tmo>>

\* Worker.run, the head of the loop body: the arguments of process_url are taken from
\* the ticket, then need_summary and tts_config are taken again from the job's document
\* when the ticket has a job_id and the document can be read
TkLoad ==
    /\ tk.pc = "ticket"
    /\ LET t == tk.ticket
           readable == t.job_id # 0 /\ tk.document \notin {"absent", "unreadable"}
       IN  tk' = [tk EXCEPT
                    !.pc = "fetch",
                    !.call = [t EXCEPT
                                !.need_summary = IF readable
                                                 THEN doc_need_summary(tk.document) ELSE @,
                                !.tts_config = IF readable
                                               THEN doc_tts_config(tk.document) ELSE @]]
    /\ UNCHANGED <<queueVars, componentVars, rt, hook, noUrl, tmo>>

\* process_url step 1: the fetch succeeds, or fails and process_url returns the failure
TkFetch ==
    /\ tk.pc = "fetch"
    /\ \E ok \in BOOLEAN :
          tk' = [tk EXCEPT !.pc = IF ok THEN "script" ELSE "done", !.fetched = ok]
    /\ UNCHANGED <<queueVars, componentVars, rt, hook, noUrl, tmo>>

\* process_url step 2: the LLM's script if need_summary, else the content as it was fetched
TkScript ==
    /\ tk.pc = "script"
    /\ IF tk.call.need_summary
       THEN \E ok \in BOOLEAN :
               tk' = [tk EXCEPT !.pc = "done", !.llm_called = TRUE,
                                !.script = IF ok THEN "llm_script" ELSE "none"]
       ELSE tk' = [tk EXCEPT !.pc = "done", !.script = "content"]
    /\ UNCHANGED <<queueVars, componentVars, rt, hook, noUrl, tmo>>

\* a POST /api/generate body, or the arguments of an add_job call together with the job
\* document the worker will find
InitTicket ==
    /\ maxRuns = 0
    /\ Fed(<<>>)
    /\ QueueExtInit
    /\ ProvidersIdle
    /\ CatalogIdle
    /\ tmo = NoTimeout
    /\ rt = NoRoundTrip
    /\ hook = NoHook
    /\ noUrl = {}
    /\ \E u \in UserIdArgs : \E ns \in NeedSummaryArgs : \E tc \in TtsConfigArgs :
          LET args == [user_id |-> u, need_summary |-> ns, tts_config |-> tc]
          IN  \/ tk = [NoRequest EXCEPT !.pc = "request", !.route = "api", !.args = args]
              \/ \E j \in {0, 1} : \E d \in Documents :
                    /\ j = 0 => d = "absent"
                    /\ tk = [NoRequest EXCEPT !.pc = "request", !.route = "add_job",
                                              !.args = args, !.job_id = j, !.document = d]

NextTicket ==
    \/ TkGenerate
    \/ TkMigrate
    \/ TkAddJob
    \/ TkLoad
    \/ TkFetch
    \/ TkScript

TicketSpec == InitTicket /\ [][NextTicket]_vars

\* ------------------------------------------------ a ticket without "url"
\* where a file that no add_job wrote can sort among the tickets: before or after them
NoUrlQids == {0, 2 * (MaxLines + 1) * (DEFAULT_MAX_RETRIES + 1)}

\* a fed queue, and queue/ holding at most one file without "url"
InitNoUrl ==
    /\ maxRuns = MaxLiveRuns
    /\ QueueExtInit
    /\ ProvidersIdle
    /\ CatalogIdle
    /\ tmo = NoTimeout
    /\ rt = NoRoundTrip
    /\ hook = NoHook
    /\ tk = NoRequest
    /\ \E ls \in {l \in FedLines : Len(l) <= MaxLines} : Fed(ls)
    /\ \E q \in NoUrlQids : noUrl \in {{}, {q}}

NoUrlSpec == InitNoUrl /\ [][NextDrain]_vars

\* ------------------------------------------------------------ check_timeout
\* JobManager.STAGE_TIMEOUTS; 0 stands for a stage that is not a key
STAGE_TIMEOUTS(s) ==
    CASE s = "fetching" -> 60
      [] s = "llm_processing" -> 300
      [] s = "tts_generating" -> 600
      [] OTHER -> 0

TimedStages == {"fetching", "llm_processing", "tts_generating"}

\* Job.get_stage_elapsed_time at time now; 0 also stands for None, both are falsy
get_stage_elapsed_time(start, now) == IF start # NoTime THEN now - start ELSE 0

\* a faulty early warning that starts at half the budget
approaching_at_half(elapsed, timeout) == 10 * elapsed > 5 * timeout

\* elapsed > timeout * 0.8
approaching(elapsed, timeout) == 10 * elapsed > 8 * timeout

\* JobManager.check_timeout: the warning it returns, "none" for None
check_timeout(s, start, now) ==
    LET elapsed == get_stage_elapsed_time(start, now)
        timeout == STAGE_TIMEOUTS(s)
    IN  IF s \in TimedStages /\ elapsed # 0
        THEN IF elapsed > timeout THEN "exceeded"
             ELSE IF approaching(elapsed, timeout) THEN "approaching"
             ELSE "none"
        ELSE "none"

\* Job.update(stage=s) in the server process: the stage and the start of its clock.
\* Time is counted from 1 so that NoTime is no instant.
TmUpdate ==
    /\ tmo.stage_start_time = NoTime
    /\ \E s \in TimedStages :
          tmo' = [tmo EXCEPT !.stage = s, !.stage_start_time = tmo.now, !.last = NoCheck]
    /\ UNCHANGED <<queueVars, componentVars, rt, hook, tk, noUrl>>

\* twelve seconds pass: every threshold of check_timeout is a multiple of twelve
TmTick ==
    /\ tmo.now + 12 <= MaxSeconds
    /\ tmo' = [tmo EXCEPT !.now = @ + 12, !.last = NoCheck]
    /\ UNCHANGED <<queueVars, componentVars, rt, hook, tk, noUrl>>

\* handle_progress: timeout_warning = job_manager.check_timeout(job_id), put into the
\* response when it is not None
TmCheck ==
    /\ tmo' = [tmo EXCEPT !.last =
                  [stage |-> tmo.stage,
                   elapsed |-> get_stage_elapsed_time(tmo.stage_start_time, tmo.now),
                   warning |-> check_timeout(tmo.stage, tmo.stage_start_time, tmo.now)]]
    /\ UNCHANGED <<queueVars, componentVars, rt, hook, tk, noUrl>>

\* a job in the server's memory whose stage has not been set
InitTimeout ==
    /\ maxRuns = 0
    /\ Fed(<<>>)
    /\ QueueExtInit
    /\ ProvidersIdle
    /\ CatalogIdle
    /\ rt = NoRoundTrip
    /\ hook = NoHook
    /\ tk = NoRequest
    /\ noUrl = {}
    /\ tmo = [NoTimeout EXCEPT !.now = 1]

NextTimeout ==
    \/ TmUpdate
    \/ TmTick
    \/ TmCheck

TimeoutSpec == InitTimeout /\ [][NextTimeout]_vars

\* ------------------------------------------------------------- properties
Terminal == {COMPLETED, FAILED, CANCELLED, TIMEOUT}

\* the ticket files of job j in a directory
TicketsOf(dir, j) == {t \in dir : t.job = j}

AllTickets == queueDir \cup processedDir \cup failedDir

\* C1: in every reachable state each job that has a ticket has it in exactly one
\* file of exactly one of queue/, processed/, failed/.  Refuted: retry_job and
\* mark_failed write the new file before they unlink the source.
C1_ExactlyOneFile ==
    \A j \in JobIds \cap ticketed :
        Cardinality(TicketsOf(queueDir, j)) + Cardinality(TicketsOf(processedDir, j))
            + Cardinality(TicketsOf(failedDir, j)) = 1

\* C2: at most one worker is between a successful acquire and its release; every
\* worker past the acquire holds the lock; an acquire succeeds exactly when nobody
\* holds the lock; a refused worker only exits, and its exit changes no ticket,
\* no queue.txt and no Job Status.
C2_HoldersInv ==
    /\ Cardinality(lockHolders) <= 1
    /\ \A wk \in Workers : w[wk].pc \notin {"idle", "refused"} <=> wk \in lockHolders

C2_RefusedStep ==
    \A wk \in Workers :
        /\ w[wk].pc = "idle" /\ w'[wk].pc # "idle"
             => IF lockHolders = {} THEN w'[wk].pc = "migrate" /\ lockHolders' = {wk}
                ELSE w'[wk].pc = "refused" /\ lockHolders' = lockHolders
        /\ w[wk].pc = "refused" /\ w'[wk] # w[wk]
             => /\ w'[wk] = NewWorker
                /\ UNCHANGED <<queueTxt, queueDir, processedDir, failedDir, doc,
                               lockHolders, audio, catalog>>

C2_SingleFlight == [](C2_HoldersInv) /\ [][C2_RefusedStep]_vars

\* C2 witness: one worker is processing a ticket under the lock, the other was refused
C2_Witness ==
    \E a, b \in Workers :
        /\ a # b
        /\ lockHolders = {a}
        /\ w[a].pc \in InProcessUrl
        /\ w[b].pc = "refused"

\* C3: no write changes the status of a Job Status document that is COMPLETED,
\* FAILED, CANCELLED or TIMEOUT.  Refuted: update_job of the worker has no such
\* check, the run of a retry ticket writes PROCESSING over FAILED.
C3_TerminalStatusKept ==
    [][\A j \in JobIds : doc[j].status \in Terminal => doc'[j].status = doc[j].status]_vars

\* C4: a job whose fetch, LLM and TTS calls do not fail ends its run successful, with
\* status completed and progress 100.  Refuted: the arguments of the "tts_generating"
\* update read TTSGenerator.provider_info before any generate() initialised the
\* provider, the AttributeError fails the run.
C4_HappyPathCompletes ==
    \A wk \in Workers :
        w[wk].pc = "qop" /\ w[wk].cur.job \in JobIds /\ ~w[wk].extFail
            => /\ w[wk].ok
               /\ doc[w[wk].cur.job].status = COMPLETED
               /\ doc[w[wk].cur.job].progress = 100

\* C5: with worker processes killed at any point, a job id that add_job has written a
\* ticket for is never absent from all of queue/, processed/ and failed/; a worker
\* inside process_url has its ticket in queue/, and still has after being killed there.
C5_Inv ==
    /\ \A j \in ticketed : TicketsOf(AllTickets, j) # {}
    /\ \A wk \in Workers : w[wk].pc \in InProcessUrl => w[wk].cur \in queueDir

C5_CrashStep ==
    \A wk \in Workers :
        w[wk].pc \in InProcessUrl /\ crashes' = crashes + 1 /\ w'[wk] = NewWorker
            => w[wk].cur \in queueDir'

C5_NoTicketLost == [](C5_Inv) /\ [][C5_CrashStep]_vars

\* C5 witness: a worker was killed between the add_job and the unlink of retry_job (or
\* the write and the unlink of mark_failed): the source is still in queue/ beside the
\* new file, and nobody is running
C5_Witness ==
    /\ crashes > 0
    /\ \A wk \in Workers : w[wk].pc = "idle"
    /\ \E t \in queueDir :
         \/ \E u \in queueDir : u.job = t.job /\ u.rc = t.rc + 1
         \/ t \in failedDir

\* C6: a ticket of retry_count 0 whose runs all fail is run once with each of the
\* retry counts 0, 1, 2, 3 and with no other; between the operations of the worker
\* the job has exactly one ticket file, while retry_job is between its add_job and
\* its unlink the source and one new ticket of retry_count + 1; once the ticket is in
\* failed/ it has retry_count 3, all four runs have happened, nothing of the job is
\* in queue/ any more and the Job Status is FAILED.
C6_NoSuccess(j) ==
    /\ TicketsOf(processedDir, j) = {}
    /\ \A wk \in Workers : w[wk].cur.job = j => ~w[wk].ok

C7_CancelStopsPipeline ==
    \A j \in cancelLLM :
        /\ doc[j].status = CANCELLED
        /\ \A wk \in Workers : w[wk].cur.job = j => w[wk].pc \notin {"tts", "episode"}
        /\ j \notin audio
        /\ j \notin catalog

\* C8: the ticket of a cancelled job is never re-queued by retry_job and never written
\* to failed/.  Refuted: run() decides on result["success"] alone.
C8_CancelledNotRetried ==
    [][\A j \in JobIds : mem[j].cancelled =>
          /\ \A t \in queueDir' \ queueDir : t.job = j => t.rc = 0
          /\ \A t \in failedDir' \ failedDir : t.job # j]_vars

\* C9: a cancel request succeeds (200; CANCELLED, cancelled and completed_at set) exactly
\* when the Job Status is in one of the six statuses in progress, and otherwise answers
\* 400 and leaves the Job Status as it was.  Refuted: cancel_job looks at the status the
\* server holds in memory, which the writes of the worker never reach.
Cancellable == {PENDING, QUEUED, PROCESSING, FETCHING, LLM_PROCESSING, TTS_GENERATING}

C9_CancelIffInProgress ==
    [][nCancels' # nCancels =>
          LET j == cancelResp'.job
          IN  doc[j] # NoDoc =>
                IF doc[j].status \in Cancellable
                THEN /\ cancelResp'.code = 200
                     /\ doc'[j].status = CANCELLED
                     /\ doc'[j].cancelled
                     /\ doc'[j].completed_at
                ELSE /\ cancelResp'.code = 400
                     /\ doc'[j] = doc[j]]_vars

\* C10: once the Job Status document has cancelled = true, it never has cancelled = false
\* again.  Refuted: an update_job of the worker that read the document before the cancel
\* writes its copy back after it.
C10_CancelledMonotonic ==
    [][\A j \in JobIds : doc[j].cancelled => doc'[j].cancelled]_vars

\* C11: a progress read never answers "Job not found" for a job whose status file
\* exists, whatever write is in progress.  Refuted: update_job writes in place
\* (open "w", json.dump); a server that does not hold the job in memory reads the
\* truncated file, json.load fails and get_job returns None.
C11_NoPartialRead == notFound = {}

\* C12: once handle_generate has written QUEUED for a job, a step of the server writes
\* the job's document only when it serves a cancel.  Refuted: handle_progress promotes
\* a QUEUED job to PROCESSING and saves it over what the worker wrote.
C12_OnlyCancelWrites ==
    [][\A j \in JobIds :
          genpc[j] = "done" /\ w' = w /\ doc'[j] # doc[j] => nCancels' # nCancels]_vars

\* C13: the progress stored in a job's document never decreases, except by the first
\* update of a new run of the job.  Refuted: the server saves its own copy of the job,
\* progress 5 or 10, over the progress the worker has written.
C13_FirstUpdateOfRun(j) ==
    \E wk \in Workers :
        /\ w[wk].pc = "upd_w" /\ w[wk].k = 1 /\ w[wk].cur.job = j
        /\ w'[wk].pc # "upd_w"

C13_ProgressMonotonic ==
    [][\A j \in JobIds :
          doc[j] # NoDoc /\ ~C13_FirstUpdateOfRun(j)
              => doc'[j].progress >= doc[j].progress]_vars

\* C15: the status of a job's document never moves backward along PENDING, QUEUED,
\* PROCESSING, FETCHING, LLM_PROCESSING, TTS_GENERATING, COMPLETED.  Refuted:
\* handle_generate appends the queue.txt line before it writes QUEUED, a worker that
\* has picked the line up writes PROCESSING first.
StatusOrder ==
    <<PENDING, QUEUED, PROCESSING, FETCHING, LLM_PROCESSING, TTS_GENERATING, COMPLETED>>

StatusRank(st) == CHOOSE i \in 1..Len(StatusOrder) : StatusOrder[i] = st

InStatusOrder(st) == \E i \in 1..Len(StatusOrder) : StatusOrder[i] = st

C15_StatusNeverBackward ==
    [][\A j \in JobIds :
          InStatusOrder(doc[j].status) /\ InStatusOrder(doc'[j].status)
              => StatusRank(doc'[j].status) >= StatusRank(doc[j].status)]_vars

\* C14: a Job Status shows progress 100 exactly when its status is completed, in the
\* document and in the server's memory, in every state and so whenever a run has ended.
C14_FullIffCompleted ==
    \A j \in JobIds :
        /\ doc[j] # NoDoc => (doc[j].progress = 100 <=> doc[j].status = COMPLETED)
        /\ mem[j] # NoDoc => (mem[j].progress = 100 <=> mem[j].status = COMPLETED)

\* C14 witness: a run of job 1 has ended completed at 100 and the server, restarted,
\* has reloaded the job from its file
C14_Witness ==
    /\ doc[1].status = COMPLETED /\ doc[1].progress = 100
    /\ mem[1].status = COMPLETED
    /\ restarts > 0
    /\ \E t \in processedDir : t.job = 1
    /\ \A wk \in Workers : w[wk].cur.job # 1

\* C16: while a worker executes the fetch, LLM or TTS stage of a job, the status of the
\* job's document is fetching, llm_processing or tts_generating respectively.
C16_StageStatus ==
    \A wk \in Workers :
        LET j == w[wk].cur.job
        IN  j \in JobIds /\ doc[j] # NoDoc /\ j \notin torn =>
                /\ w[wk].pc = "fetch" => doc[j].status = FETCHING
                /\ w[wk].pc = "llm" => doc[j].status = LLM_PROCESSING
                /\ w[wk].pc = "tts" => doc[j].status = TTS_GENERATING

\* C17: a Job Status whose status is completed, failed or cancelled has completed_at
\* set, in the document on disk and in the server's in-memory Job alike.
C17_CompletedAtSet ==
    \A j \in JobIds :
        /\ doc[j].status \in {COMPLETED, FAILED, CANCELLED} => doc[j].completed_at
        /\ mem[j].status \in {COMPLETED, FAILED, CANCELLED} => mem[j].completed_at

\* C18: every ticket in queue/ carries a job id that has a Job Status document,
\* whichever route its queue.txt line came from.
C18_TicketHasDocument ==
    \A t \in queueDir : t.job \in JobIds /\ doc[t.job] # NoDoc

\* a pipeline has been run for job j: a ticket of it was marked processed or failed, or
\* re-queued with a retry count
Processed(j) ==
    \/ \E t \in processedDir \cup failedDir : t.job = j
    \/ \E t \in queueDir : t.job = j /\ t.rc > 0

\* C19: when a drain pass releases the lock, every job whose queue entry was written
\* while that pass was running an earlier ticket has been processed by it.
C19_ArrivalsDrained ==
    [][\A wk \in Workers :
          wk \in lockHolders /\ w[wk].pc = "release" /\ w'[wk].pc = "idle"
              /\ crashes' = crashes
          => \A j \in arrived \cap JobIds : Processed(j)]_vars

\* C20: tickets added one after the other are listed, and so processed, in that order:
\* the tickets a migration adds, sorted by queue id, carry the job ids of the lines
\* of queue.txt in line order.
C20_ArrivalOrder ==
    [][\A wk \in Workers :
          w[wk].pc = "migrate" /\ w'[wk].pc = "rename"
          => LET added == get_pending_jobs(queueDir' \ queueDir)
             IN  [i \in 1..Len(added) |-> added[i].job] = queueTxt]_vars

\* C21: an interrupted add_job leaves no partially written file in queue/ (and
\* get_pending_jobs, which lists only the files that parse, returns no partial ticket).
C21_NoPartialFileLeft == partialFiles = {}

\* C22: a job whose worker process died while the job's status was not terminal
\* eventually has status FAILED (with the worker-crashed diagnostic).
C22_CrashedJobFails ==
    \A j \in JobIds :
        (j \in diedOn /\ doc[j].status \notin Terminal) ~> (doc[j].status = FAILED)

\* the available list of a kind at a fallback lookup: the configured provider and the
\* other providers that answer, in list order
available(kind, original, healthy) ==
    SelectSeq(FALLBACK_MODELS(kind), LAMBDA p : p = original \/ p \in healthy)

IndexOf(seq, x) == CHOOSE i \in 1..Len(seq) : seq[i] = x

\* C23: reporting the failure of the current provider on an available list of k >= 2
\* entries yields the entry one past the current index modulo k; with k = 1 it
\* signals that there is no fallback.
C23_FallbackRotates ==
    fallback.kind # "none" =>
        LET av == available(fallback.kind, fallback.original, fallback.healthy)
            k == Len(av)
            cur == IndexOf(av, fallback.original)
        IN  /\ k >= 2 => fallback.result = av[(cur % k) + 1]
            /\ k = 1 => fallback.result = "none"

\* C24: within one call, when an attempt has failed and the failure report has
\* returned a provider entry, the next attempt is issued to that provider.
C24_NextAttemptOnNewProvider ==
    \A i \in 1..Len(stage.switched) :
        stage.switched[i] \in ProvidersOf(stage.kind) /\ Len(stage.sent) > i
            => stage.sent[i + 1].to = stage.switched[i]

\* C25: a call whose provider failed at every attempt and for which no fallback was
\* offered has made exactly 3 attempts and returns the exhausted-attempts error.
C25_ThreeAttemptsThenGiveUp ==
    stage.pc = "idle" /\ stage.result \notin {"none", "success"}
        /\ (\A i \in 1..Len(stage.switched) : stage.switched[i] \notin ProvidersOf(stage.kind))
        => Len(stage.sent) = 3 /\ stage.result = "exhausted"

\* C26: a single generate() / process() call invokes the provider at most 3 times.
C26_AtMostThreeCalls == Len(stage.sent) <= 3

\* C26 witness: a call that has invoked the provider three times, through a returned
\* error, an exception and two switches, and has given up
C26_Witness ==
    /\ stage.pc = "idle"
    /\ stage.result = "exhausted"
    /\ Len(stage.sent) = 3
    /\ stage.sent[1].out = "fail"
    /\ stage.sent[2].out = "raise"
    /\ stage.switched[1] \in ProvidersOf(stage.kind)
    /\ stage.switched[2] \in ProvidersOf(stage.kind)

\* the ids of the catalog's entries, in order
IdsOf(md) == [i \in 1..Len(md) |-> md[i].id]

\* C27: after any sequence of add_episode calls with a fixed limit, the catalog holds
\* at most limit entries and no two of them share an id.
C27_CatalogWithinCap ==
    /\ Len(metadata) <= limit
    /\ \A i, k \in 1..Len(metadata) : metadata[i].id = metadata[k].id => i = k

\* C27 witness: a catalog of two or more entries is full after an add that evicted
C27_Witness ==
    /\ limit >= 2
    /\ Len(metadata) = limit
    /\ lastOp.op = "add"
    /\ lastOp.evicted # 0

C29_ReplacesInPlace ==
    [][\A id \in EpisodeIds : \A data \in Versions :
          AddEpisode(id, data) /\ index_of_id(metadata, id) # 0
          => /\ IdsOf(metadata') = IdsOf(metadata)
             /\ metadata'[index_of_id(metadata, id)].data = data
             /\ \A i \in 1..Len(metadata) :
                   i # index_of_id(metadata, id) => metadata'[i] = metadata[i]
             /\ userFiles' = userFiles]_vars

\* C29 witness: at the cap, the last add replaced the data of the oldest entry
C29_Witness ==
    /\ limit >= 2
    /\ Len(metadata) = limit
    /\ lastOp.op = "add"
    /\ lastOp.replaced
    /\ lastOp.evicted = 0
    /\ metadata[limit].id = lastOp.id
    /\ metadata[limit].data = "b"

\* C30: delete_episode(id) removes the entry and the episode's audio file and script
\* file; after it neither file exists.
C30_DeleteRemovesFiles ==
    [][\A id \in EpisodeIds :
          DeleteEpisode(id) /\ index_of_id(metadata, id) # 0
          => /\ index_of_id(metadata', id) = 0
             /\ audio_file(id) \notin userFiles'
             /\ script_file(id) \notin userFiles']_vars

\* C31: a Job rebuilt from its serialised form (to_dict then from_dict, or _save_job
\* then get_job from the file) has every field of the original with the same value.
C31_RoundTrip == rt.how # "none" => rt.copy = rt.job

\* the POSTs of the last send_notification call to webhook u
PostsTo(u) == {k \in 1..Len(hook.posts) : hook.posts[k].url = u}

\* C32: when send_notification has returned and every POST it sent to a webhook ended in
\* a network error, it sent that webhook three POSTs: one failed POST is not the last.
C32_ThreeDeliveryAttempts ==
    \A u \in Webhooks :
        ( /\ hook.pc = "idle"
          /\ PostsTo(u) # {}
          /\ \A k \in PostsTo(u) : hook.posts[k].out \in NetworkErrors )
        => Cardinality(PostsTo(u)) = stop_after_attempt

\* C33: for a ticket whose need_summary is false the worker makes no LLM call and the
\* script is the fetched content, whatever the job's document holds.
C33_NoSummaryNoLlm ==
    (tk.pc = "done" /\ tk.fetched /\ ~tk.ticket.need_summary)
    => (~tk.llm_called /\ tk.script = "content")

\* C34: the ticket of an accepted POST /api/generate carries the request's user_id
\* ("default" only when the request has none), need_summary and tts_config, with
\* retry_count 0 and max_retries 3.
C34_TicketCarriesRequest ==
    (tk.route = "api" /\ tk.ticket # NoFields)
    => tk.ticket = add_job_fields(tk.job_id, tk.args, 0)

\* C35: once the worker has written COMPLETED with progress 100 to a job's document,
\* a progress read for that job answers with that status and progress, also when the
\* server process holds the job in memory.
C35_ReadSeesWorkerWrite ==
    \A j \in JobIds :
        (genpc[j] = "done" /\ j \notin torn /\ doc[j].status = COMPLETED)
        => /\ handle_progress(j).job.status = COMPLETED
           /\ handle_progress(j).job.progress = 100

\* C36: one malformed ticket file in queue/ does not keep the other tickets of the drain
\* pass from being processed: when a pass ends, no ticket that migrate wrote for it
\* (retry_count 0) is left in queue/.
C36_OthersProcessed ==
    \A wk \in Workers :
        w[wk].pc = "release" => \A t \in queueDir : t.rc # 0

\* C37 as claimed: a progress response carries timeout_warning only if the time since
\* the stage started exceeds the stage's budget.
C37_WarningOnlyPastBudget ==
    tmo.last.warning # "none" => tmo.last.elapsed > STAGE_TIMEOUTS(tmo.last.stage)

\* C37: a progress response carries timeout_warning only if the time since the stage
\* started exceeds 80% of the stage's budget (60 s, 300 s, 600 s); at or below 80% of
\* the budget there is none.
C37_WarningOnlyPast80 ==
    tmo.last.warning # "none"
    => /\ tmo.last.stage \in TimedStages
       /\ 10 * tmo.last.elapsed > 8 * STAGE_TIMEOUTS(tmo.last.stage)

\* C37 witness: a warning in the response while the stage is within its budget
C37_Witness ==
    /\ tmo.last.warning = "approaching"
    /\ tmo.last.stage = "llm_processing"
    /\ tmo.last.elapsed = 300

\* C38: a job whose POST /api/generate has returned 200 is never without both a line in
\* queue.txt and a ticket in queue/, processed/ or failed/; tickets are only written
\* from lines of queue.txt and from other tickets, so a job without both never gets one.
C38_AcceptedJobTicketed ==
    \A j \in JobIds :
        genpc[j] = "done" => (InQueueTxt(j) \/ TicketsOf(AllTickets, j) # {})

\* C39: when a job's status becomes COMPLETED the catalog holds the job's episode; a
\* job is not reported completed after add_episode failed.
C39_CompletedHasEpisode ==
    [][\A j \in JobIds :
          (doc[j].status # COMPLETED /\ doc'[j].status = COMPLETED) => j \in catalog']_vars

\* a worker process that is not inside run() past its acquire
Ended(wk) == w[wk].pc \in {"idle", "refused"}

\* C40: a run() that acquired the lock has released it when it ends, whether the queue
\* was empty, the loop completed or an exception left it; a worker started while no
\* other run is in progress acquires the lock.
C40_ReleasedOnExit ==
    /\ [](\A wk \in Workers : Ended(wk) => wk \notin lockHolders)
    /\ [][\A wk \in Workers :
            ( /\ w[wk].pc = "idle"
              /\ w'[wk].pc # "idle"
              /\ \A o \in Workers : Ended(o) )
            => (w'[wk].pc = "migrate" /\ wk \in lockHolders')]_vars

\* C40 witness: the first run ended by the KeyError of a ticket without "url", and a
\* worker started afterwards holds the lock
C40_Witness ==
    /\ noUrl = {0}
    /\ runs = 2
    /\ \E wk \in Workers :
          /\ lockHolders = {wk}
          /\ w[wk].pc = "migrate"
          /\ \A o \in Workers \ {wk} : w[o].pc = "idle"

====
